---- MODULE Spec2Model ----
(***************************************************************************)
(* MiCa: the local persistent graph store (zustand store over five Dexie   *)
(* tables) as a state machine.                                             *)
(*                                                                         *)
(* db     the five persistent tables; every table is the sequence of its   *)
(*        records in primary-key order, which is the order toArray() and   *)
(*        where(...).toArray() return them in.                             *)
(* state  the in-memory zustand state (the read model).                    *)
(* idb    the version the database was last opened at, and the views       *)
(*        table that version 1 declared (Dexie keeps a table that a later  *)
(*        version does not mention).                                       *)
(*                                                                         *)
(* calls  the Facade calls in flight, for the behaviours in which calls    *)
(*        overlap: each is at one of its awaits, with its local values.    *)
(*                                                                         *)
(* Identifiers are numbers; 0 stands for JavaScript's undefined wherever   *)
(* the code tests an optional id for truthiness.  Node positions, the      *)
(* createdAt/updatedAt stamps, appMode and hush take no part in the        *)
(* operations modelled here and are left out of the records.  Strings are  *)
(* sequences of characters.                                                *)
(***************************************************************************)
EXTENDS Integers, Sequences, FiniteSets, TLC

\* Bound: the number of Facade calls made in one behaviour.
MaxSteps == 3

VARIABLES db, state, nextId, steps, last, file, idb, calls

vars == <<db, state, nextId, steps, last, file, idb, calls>>

---------------------------------------------------------------------------
(* Values *)

Undefined == 0

NoRelation == "undefined"

currentSchemaVersion == 2

\* An id no record was ever given: stands for any stale or mistyped id a
\* caller may pass.
GhostId == 0 - 1

RECURSIVE SeqSum(_)
SeqSum(s) == IF s = <<>> THEN 0 ELSE Head(s) + SeqSum(Tail(s))

Range(s) == {s[i] : i \in DOMAIN s}

RECURSIVE Flatten(_)
Flatten(ss) == IF ss = <<>> THEN <<>> ELSE Head(ss) \o Flatten(Tail(ss))

Some(s, P(_)) == \E i \in DOMAIN s : P(s[i])

\* Array.prototype.find and Table.get return a value or undefined: here the
\* one-element sequence of the value, or the empty sequence for undefined.
Find(s, P(_)) ==
  LET hits == SelectSeq(s, P) IN IF hits = <<>> THEN <<>> ELSE <<Head(hits)>>

\* opt ?? d
OrElse(opt, d) == IF opt = <<>> THEN d ELSE opt[1]

\* obj[k] ?? undefined, for an object that may lack the property k.
Field(r, k, undefined) == IF k \in DOMAIN r THEN r[k] ELSE undefined

\* spaces[0]?.id
FirstId(s) == IF s = <<>> THEN Undefined ELSE Head(s).id

---------------------------------------------------------------------------
(* Dexie tables *)

HasKey(t, k) == \E i \in DOMAIN t : t[i].id = k

\* Table.put on a table keyed by id: replaces the record with that key or
\* inserts it at its place in key order.
TablePut(t, r) ==
  SelectSeq(t, LAMBDA x : x.id < r.id) \o <<r>> \o SelectSeq(t, LAMBDA x : x.id > r.id)

\* Table.delete(key)
TableDelete(t, k) == SelectSeq(t, LAMBDA x : x.id # k)

\* table.where({spaceId}).toArray()
WhereSpace(t, sid) == SelectSeq(t, LAMBDA x : x.spaceId = sid)

\* table.where({spaceId}).delete()
DeleteWhereSpace(t, sid) == SelectSeq(t, LAMBDA x : x.spaceId # sid)

\* spaceViewState is keyed by spaceId.
ViewGet(t, sid) == Find(t, LAMBDA x : x.spaceId = sid)

ViewPut(t, r) ==
  SelectSeq(t, LAMBDA x : x.spaceId < r.spaceId) \o <<r>>
    \o SelectSeq(t, LAMBDA x : x.spaceId > r.spaceId)

ViewDelete(t, sid) == SelectSeq(t, LAMBDA x : x.spaceId # sid)

\* Table.bulkAdd / Table.add: a ConstraintError when a key is already there
\* (or occurs twice in the batch); otherwise every record is inserted.
RECURSIVE BulkAdd(_, _)
BulkAdd(t, rs) ==
  IF rs = <<>> THEN [ok |-> TRUE, table |-> t]
  ELSE IF HasKey(t, Head(rs).id) THEN [ok |-> FALSE, table |-> t]
  ELSE BulkAdd(TablePut(t, Head(rs)), Tail(rs))

EmptyDb ==
  [spaces |-> <<>>, nodes |-> <<>>, edges |-> <<>>, spaceViewState |-> <<>>,
   appSettings |-> <<>>]

\* db.appSettings.get('app'): the table holds at most the record keyed 'app'.
SettingsGet(d) == d.appSettings

---------------------------------------------------------------------------
(* Templates *)

DefaultCamera == [position |-> <<8, 6, 10>>, target |-> <<0, 0, 0>>]

defaultView(environment) ==
  [camera |-> DefaultCamera, environment |-> environment,
   edgeVisibility |-> "neighborhood", mode |-> "observe"]

defaultViewState == defaultView("dome")

defaultAppSettings ==
  [key |-> "app", schemaVersion |-> currentSchemaVersion, lastOpenedSpaceId |-> Undefined]

TEMPLATE_OPTIONS ==
  << [key |-> "blank", name |-> "Blank Space", icon |-> "cyclone", environment |-> "dome"],
     [key |-> "research", name |-> "Research Brain", icon |-> "microscope", environment |-> "dome"],
     [key |-> "life", name |-> "Life OS", icon |-> "herb", environment |-> "dome"],
     [key |-> "startup", name |-> "Startup Map", icon |-> "rocket", environment |-> "white-room"] >>

Markdown(text) == [type |-> "markdown", text |-> text]

\* What buildTemplate passes to createNode for each node of a template, in
\* the order of nodesForTemplate: title, first block (without its id), tags,
\* importance.
TemplateNodes(template) ==
  << [title |-> template.name \o " Core",
      block |-> Markdown("Capture thoughts, links, and connections here."),
      tags |-> <<>>, importance |-> 3],
     [title |-> "Ideas", block |-> Markdown("Quick capture zone."),
      tags |-> <<"ideas">>, importance |-> 4],
     [title |-> "Resources",
      block |-> [type |-> "link", url |-> "https://threejs.org", label |-> "Three.js"],
      tags |-> <<"resources">>, importance |-> 3],
     [title |-> "Next Actions", block |-> Markdown("Lightweight tasks to keep momentum."),
      tags |-> <<"actions">>, importance |-> 5] >>
  \o (IF template.key = "research" THEN
        << [title |-> "Hypotheses", block |-> Markdown("Track questions and early answers."),
            tags |-> <<"research">>, importance |-> 3],
           [title |-> "Sources", block |-> Markdown("Papers, datasets, interviews."),
            tags |-> <<"sources">>, importance |-> 3] >>
      ELSE <<>>)
  \o (IF template.key = "life" THEN
        << [title |-> "Wellness", block |-> Markdown("Habits, reflection, gratitude."),
            tags |-> <<"life", "health">>, importance |-> 4],
           [title |-> "Journal", block |-> Markdown("Daily snapshots of mood + learnings."),
            tags |-> <<"journal">>, importance |-> 3] >>
      ELSE <<>>)
  \o (IF template.key = "startup" THEN
        << [title |-> "Customers", block |-> Markdown("Personas, interviews, pains."),
            tags |-> <<"customers">>, importance |-> 3],
           [title |-> "Product", block |-> Markdown("Opportunities, experiments, roadmap."),
            tags |-> <<"product">>, importance |-> 3],
           [title |-> "Metrics", block |-> Markdown("North star, weekly pulse."),
            tags |-> <<"metrics">>, importance |-> 3] >>
      ELSE <<>>)

\* nanoid(): the k-th identifier drawn after `base` identifiers were drawn.
\* Identifiers are unique: no two draws return the same one.
nanoid(base, k) == base + k

\* The number of identifiers buildTemplate draws.
TemplateIds(template) ==
  3 * Len(TemplateNodes(template)) + (IF template.key = "blank" THEN 1 ELSE 0)

\* buildTemplate, drawing its identifiers after `base`: the space id first,
\* then for each node its block's id and its own id, then one id per edge,
\* then the id of the embed block pushed onto the blank template's center.
buildTemplate(template, base) ==
  LET specs == TemplateNodes(template)
      n == Len(specs)
      spaceId == nanoid(base, 1)
      view == defaultView(template.environment)
      nodeId(i) == nanoid(base, 1 + 2 * i)
      embed == [id |-> nanoid(base, 3 * n + 1), type |-> "embed",
                url |-> "https://www.youtube.com/watch?v=dQw4w9WgXcQ",
                provider |-> "youtube"]
      node(i) ==
        [id |-> nodeId(i), spaceId |-> spaceId, title |-> specs[i].title,
         tags |-> specs[i].tags, importance |-> specs[i].importance,
         blocks |-> << [id |-> nanoid(base, 2 * i)] @@ specs[i].block >>
                      \o (IF i = 1 /\ template.key = "blank" THEN <<embed>> ELSE <<>>)]
  IN [space |-> [id |-> spaceId, name |-> template.name, icon |-> template.icon,
                 view |-> view],
      nodes |-> [i \in 1..n |-> node(i)],
      edges |-> [j \in 1..(n - 1) |->
                   [id |-> nanoid(base, 2 * n + 1 + j), spaceId |-> spaceId,
                    from |-> nodeId(1), to |-> nodeId(j + 1), relation |-> "related"]],
      viewState |-> [spaceId |-> spaceId] @@ view]

\* buildTemplates: every template in turn, each drawing after the last.
buildTemplates(base) ==
  LET start(i) == base + SeqSum([j \in 1..(i - 1) |-> TemplateIds(TEMPLATE_OPTIONS[j])])
      payloads == [i \in DOMAIN TEMPLATE_OPTIONS |->
                     buildTemplate(TEMPLATE_OPTIONS[i], start(i))]
  IN [spaces |-> [i \in DOMAIN payloads |-> payloads[i].space],
      nodes |-> Flatten([i \in DOMAIN payloads |-> payloads[i].nodes]),
      edges |-> Flatten([i \in DOMAIN payloads |-> payloads[i].edges]),
      viewStates |-> [i \in DOMAIN payloads |-> payloads[i].viewState]]

SeedIds == SeqSum([j \in DOMAIN TEMPLATE_OPTIONS |-> TemplateIds(TEMPLATE_OPTIONS[j])])

\* The lower-case form of a character.
LowerChar(c) ==
  CASE c = "A" -> "a"
    [] c = "B" -> "b"
    [] c = "C" -> "c"
    [] c = "D" -> "d"
    [] c = "E" -> "e"
    [] c = "F" -> "f"
    [] c = "G" -> "g"
    [] c = "H" -> "h"
    [] c = "I" -> "i"
    [] c = "J" -> "j"
    [] c = "K" -> "k"
    [] c = "L" -> "l"
    [] c = "M" -> "m"
    [] c = "N" -> "n"
    [] c = "O" -> "o"
    [] c = "P" -> "p"
    [] c = "Q" -> "q"
    [] c = "R" -> "r"
    [] c = "S" -> "s"
    [] c = "T" -> "t"
    [] c = "U" -> "u"
    [] c = "V" -> "v"
    [] c = "W" -> "w"
    [] c = "X" -> "x"
    [] c = "Y" -> "y"
    [] c = "Z" -> "z"
    [] OTHER -> c

\* String.prototype.toLowerCase, character by character (the string is
\* halved rather than walked, which keeps the evaluation shallow).
RECURSIVE toLowerCase(_)
toLowerCase(name) ==
  IF Len(name) <= 1 THEN LowerChar(name)
  ELSE toLowerCase(SubSeq(name, 1, Len(name) \div 2))
         \o toLowerCase(SubSeq(name, Len(name) \div 2 + 1, Len(name)))

\* entry.name.toLowerCase() of every template, by its key.
LowerNames ==
  [key \in {TEMPLATE_OPTIONS[j].key : j \in DOMAIN TEMPLATE_OPTIONS} |->
     toLowerCase((CHOOSE entry \in {TEMPLATE_OPTIONS[j] : j \in DOMAIN TEMPLATE_OPTIONS} :
                    entry.key = key).name)]

\* instantiateTemplate: the template whose name (case-insensitively) or key
\* is `name`, built; undefined when there is none.
instantiateTemplate(name, base) ==
  LET lower == toLowerCase(name)
      match == Find(TEMPLATE_OPTIONS,
                    LAMBDA entry : LowerNames[entry.key] = lower \/ entry.key = lower)
  IN IF match = <<>> THEN <<>> ELSE <<buildTemplate(match[1], base)>>

---------------------------------------------------------------------------
(* The store: each operation maps the tables d, the in-memory state st and *)
(* the number nid of identifiers drawn so far to the tables, state and     *)
(* count it leaves, with res: "ok" (ran to its end), "noop" (returned      *)
(* early) or "threw" (the returned promise rejected).                      *)

Ret(d, st, nid, res) == [db |-> d, state |-> st, nextId |-> nid, res |-> res]

\* hushTarget is not modelled; the store's initial state.
InitialState ==
  [initialized |-> FALSE, spaces |-> <<>>, nodes |-> <<>>, edges |-> <<>>,
   activeSpaceId |-> Undefined, selectedNodeId |-> Undefined,
   searchQuery |-> "", view |-> defaultViewState, appSettings |-> defaultAppSettings]

SettingsFor(spaceId) ==
  [key |-> "app", schemaVersion |-> currentSchemaVersion, lastOpenedSpaceId |-> spaceId]

SeedTxWithoutEdges(d, payload) ==
  LET s == BulkAdd(d.spaces, payload.spaces)
      n == BulkAdd(d.nodes, payload.nodes)
      appSettings == [defaultAppSettings EXCEPT !.lastOpenedSpaceId = FirstId(payload.spaces)]
  IN IF s.ok /\ n.ok
     THEN [ok |-> TRUE,
           db |-> [d EXCEPT !.spaces = s.table, !.nodes = n.table,
                            !.appSettings = <<appSettings>>],
           appSettings |-> appSettings]
     ELSE [ok |-> FALSE, db |-> d, appSettings |-> defaultAppSettings]

\* The seeding transaction of init: all four bulk writes and the settings
\* record, or (when a write fails) nothing.
SeedTx(d, payload) ==
  LET s == BulkAdd(d.spaces, payload.spaces)
      n == BulkAdd(d.nodes, payload.nodes)
      e == BulkAdd(d.edges, payload.edges)
      RECURSIVE PutAll(_, _)
      PutAll(t, rs) == IF rs = <<>> THEN t ELSE PutAll(ViewPut(t, Head(rs)), Tail(rs))
      appSettings == [defaultAppSettings EXCEPT !.lastOpenedSpaceId = FirstId(payload.spaces)]
  IN IF s.ok /\ n.ok /\ e.ok
     THEN [ok |-> TRUE,
           db |-> [spaces |-> s.table, nodes |-> n.table, edges |-> e.table,
                   spaceViewState |-> PutAll(d.spaceViewState, payload.viewStates),
                   appSettings |-> <<appSettings>>],
           appSettings |-> appSettings]
     ELSE [ok |-> FALSE, db |-> d, appSettings |-> defaultAppSettings]

\* The read that ends init: the active space's nodes, edges and view state,
\* the settings record with the active space in it, and the state set.
InitLoad(d, st, nid, appSettings, activeSpaceId) ==
  LET nodes == IF activeSpaceId # Undefined THEN WhereSpace(d.nodes, activeSpaceId) ELSE <<>>
      edges == IF activeSpaceId # Undefined THEN WhereSpace(d.edges, activeSpaceId) ELSE <<>>
      viewRecord == IF activeSpaceId # Undefined THEN ViewGet(d.spaceViewState, activeSpaceId)
                    ELSE <<>>
      nextSettings == [appSettings EXCEPT !.lastOpenedSpaceId = activeSpaceId]
  IN Ret([d EXCEPT !.appSettings = <<nextSettings>>],
         [st EXCEPT !.initialized = TRUE, !.spaces = d.spaces,
                    !.activeSpaceId = activeSpaceId, !.nodes = nodes, !.edges = edges,
                    !.view = OrElse(viewRecord, defaultViewState),
                    !.appSettings = nextSettings],
         nid, "ok")

InitActiveSpaceIdFirst(appSettings, spaces) == FirstId(spaces)

\* The space init opens: the one opened last if it is still stored, else
\* the first stored space, else none.
InitActiveSpaceId(appSettings, spaces) ==
  IF appSettings.lastOpenedSpaceId # Undefined
       /\ Some(spaces, LAMBDA s : s.id = appSettings.lastOpenedSpaceId)
  THEN appSettings.lastOpenedSpaceId
  ELSE FirstId(spaces)

\* init from its schema-version test on.
InitMigrate(d, st, nid, appSettings) ==
  IF appSettings.schemaVersion # currentSchemaVersion
  THEN InitLoad([d EXCEPT !.appSettings =
                             <<[appSettings EXCEPT !.schemaVersion = currentSchemaVersion]>>],
                st, nid, [appSettings EXCEPT !.schemaVersion = currentSchemaVersion],
                InitActiveSpaceId(appSettings, d.spaces))
  ELSE InitLoad(d, st, nid, appSettings, InitActiveSpaceId(appSettings, d.spaces))

\* init after its seeding transaction tx.
InitSeeded(d, st, nid, tx) ==
  IF tx.ok THEN InitMigrate(tx.db, st, nid + SeedIds, tx.appSettings)
  ELSE Ret(d, st, nid, "threw")

init(d, st, nid) ==
  IF Len(d.spaces) = 0
  THEN InitSeeded(d, st, nid, SeedTx(d, buildTemplates(nid)))
  ELSE InitMigrate(d, st, nid, OrElse(SettingsGet(d), defaultAppSettings))

setActiveSpace(d, st, nid, spaceId) ==
  LET nodes == WhereSpace(d.nodes, spaceId)
      edges == WhereSpace(d.edges, spaceId)
      view == OrElse(ViewGet(d.spaceViewState, spaceId), defaultViewState)
      nextSettings == SettingsFor(spaceId)
  IN Ret([d EXCEPT !.appSettings = <<nextSettings>>],
         [st EXCEPT !.activeSpaceId = spaceId, !.nodes = nodes, !.edges = edges,
                    !.selectedNodeId = Undefined, !.view = view,
                    !.appSettings = nextSettings],
         nid, "ok")

\* The transaction of addSpaceFromTemplate.
AddSpaceTxWithoutRollback(d, space, template, viewState) ==
  LET s == BulkAdd(d.spaces, <<space>>)
      n == BulkAdd(d.nodes, [i \in DOMAIN template.nodes |->
                               [template.nodes[i] EXCEPT !.spaceId = space.id]])
      e == BulkAdd(d.edges, [i \in DOMAIN template.edges |->
                               [template.edges[i] EXCEPT !.spaceId = space.id]])
  IN [ok |-> s.ok /\ n.ok /\ e.ok,
      db |-> [d EXCEPT !.spaces = s.table, !.nodes = n.table, !.edges = e.table,
                       !.spaceViewState = ViewPut(d.spaceViewState, viewState)]]

AddSpaceTx(d, space, template, viewState) ==
  LET s == BulkAdd(d.spaces, <<space>>)
      n == BulkAdd(d.nodes, [i \in DOMAIN template.nodes |->
                               [template.nodes[i] EXCEPT !.spaceId = space.id]])
      e == BulkAdd(d.edges, [i \in DOMAIN template.edges |->
                               [template.edges[i] EXCEPT !.spaceId = space.id]])
  IN IF s.ok /\ n.ok /\ e.ok
     THEN [ok |-> TRUE,
           db |-> [d EXCEPT !.spaces = s.table, !.nodes = n.table, !.edges = e.table,
                            !.spaceViewState = ViewPut(d.spaceViewState, viewState)]]
     ELSE [ok |-> FALSE, db |-> d]


addSpaceFromTemplateWithoutFallback(d, st, nid, templateName, overrides) ==
  LET found == instantiateTemplate(templateName, nid)
      template == found[1]
      space == overrides @@ template.space
      viewState == [spaceId |-> space.id] @@ template.viewState
      tx == AddSpaceTx(d, space, template, viewState)
      nid1 == nid + 3 * Len(template.nodes) + (Len(template.nodes[1].blocks) - 1)
  IN IF found = <<>> THEN Ret(d, st, nid, "noop")
     ELSE IF ~tx.ok THEN Ret(tx.db, st, nid1, "threw")
     ELSE setActiveSpace(tx.db, [st EXCEPT !.spaces = tx.db.spaces], nid1, space.id)

addSpaceFromTemplate(d, st, nid, templateName, overrides) ==
  LET named == instantiateTemplate(templateName, nid)
      found == IF named # <<>> THEN named ELSE instantiateTemplate("Blank Space", nid)
      template == found[1]
      space == overrides @@ template.space
      viewState == [spaceId |-> space.id] @@ template.viewState
      tx == AddSpaceTx(d, space, template, viewState)
      nid1 == nid + 3 * Len(template.nodes) + (Len(template.nodes[1].blocks) - 1)
  IN IF found = <<>> THEN Ret(d, st, nid, "noop")
     ELSE IF ~tx.ok THEN Ret(tx.db, st, nid1, "threw")
     ELSE setActiveSpace(tx.db, [st EXCEPT !.spaces = tx.db.spaces], nid1, space.id)

DeleteSpaceTxKeepingEdges(d, spaceId) ==
  [d EXCEPT !.spaces = TableDelete(d.spaces, spaceId),
            !.nodes = DeleteWhereSpace(d.nodes, spaceId),
            !.spaceViewState = ViewDelete(d.spaceViewState, spaceId)]

\* The transaction of deleteSpace.
DeleteSpaceTx(d, spaceId) ==
  [d EXCEPT !.spaces = TableDelete(d.spaces, spaceId),
            !.nodes = DeleteWhereSpace(d.nodes, spaceId),
            !.edges = DeleteWhereSpace(d.edges, spaceId),
            !.spaceViewState = ViewDelete(d.spaceViewState, spaceId)]

deleteSpaceKeepingActive(d, st, nid, spaceId) ==
  LET d1 == DeleteSpaceTx(d, spaceId)
  IN Ret(d1, [st EXCEPT !.spaces = d1.spaces], nid, "ok")

deleteSpace(d, st, nid, spaceId) ==
  LET d1 == DeleteSpaceTx(d, spaceId)
      spaces == d1.spaces
      nextActive == FirstId(spaces)
      nodes == IF nextActive # Undefined THEN WhereSpace(d1.nodes, nextActive) ELSE <<>>
      edges == IF nextActive # Undefined THEN WhereSpace(d1.edges, nextActive) ELSE <<>>
      view == IF nextActive # Undefined
              THEN OrElse(ViewGet(d1.spaceViewState, nextActive), defaultViewState)
              ELSE defaultViewState
      nextSettings == SettingsFor(nextActive)
  IN Ret([d1 EXCEPT !.appSettings = <<nextSettings>>],
         [st EXCEPT !.spaces = spaces, !.activeSpaceId = nextActive, !.nodes = nodes,
                    !.edges = edges, !.selectedNodeId = Undefined, !.view = view,
                    !.appSettings = nextSettings],
         nid, "ok")

LinkRefusedWithoutSelfCheck(st, fromId, toId) == st.activeSpaceId = Undefined

\* linkNodes' first early return.
LinkRefused(st, fromId, toId) == st.activeSpaceId = Undefined \/ fromId = toId

EdgeExistsSwapped(edges, fromId, toId, relation) ==
  Some(edges, LAMBDA edge : edge.from = toId /\ edge.to = fromId
                              /\ edge.relation = relation)

\* linkNodes' duplicate test over the read model's edges.
EdgeExists(edges, fromId, toId, relation) ==
  Some(edges, LAMBDA edge : edge.from = fromId /\ edge.to = toId
                              /\ edge.relation = relation)

linkNodes(d, st, nid, fromId, toId, relation) ==
  IF LinkRefused(st, fromId, toId) THEN Ret(d, st, nid, "noop")
  ELSE IF EdgeExists(st.edges, fromId, toId, relation) THEN Ret(d, st, nid, "noop")
  ELSE
    LET edge == [id |-> nanoid(nid, 1), spaceId |-> st.activeSpaceId, from |-> fromId,
                 to |-> toId, relation |-> relation]
        added == BulkAdd(d.edges, <<edge>>)
        d1 == [d EXCEPT !.edges = added.table]
    IN IF ~added.ok THEN Ret(d, st, nid + 1, "threw")
       ELSE Ret(d1, [st EXCEPT !.edges = WhereSpace(d1.edges, st.activeSpaceId)],
                nid + 1, "ok")

\* title.trim() || 'New Thought', for the titles callers pass here.
TitleOrDefault(title) == IF title \in {"", " "} THEN "New Thought" ELSE title

createNodeWithoutLink(d, st, nid, parentId, title) ==
  IF st.activeSpaceId = Undefined THEN Ret(d, st, nid, "noop")
  ELSE
    LET node == [id |-> nanoid(nid, 1), spaceId |-> st.activeSpaceId,
                 title |-> TitleOrDefault(title), tags |-> <<>>, importance |-> 3,
                 blocks |-> << [id |-> nanoid(nid, 2), type |-> "markdown",
                                text |-> "Describe this thought."] >>]
        added == BulkAdd(d.nodes, <<node>>)
        d1 == [d EXCEPT !.nodes = added.table]
    IN IF ~added.ok THEN Ret(d, st, nid + 2, "threw")
       ELSE Ret(d1, [st EXCEPT !.nodes = WhereSpace(d1.nodes, st.activeSpaceId),
                               !.selectedNodeId = node.id],
                nid + 2, "ok")

createNode(d, st, nid, parentId, title) ==
  IF st.activeSpaceId = Undefined THEN Ret(d, st, nid, "noop")
  ELSE
    LET node == [id |-> nanoid(nid, 1), spaceId |-> st.activeSpaceId,
                 title |-> TitleOrDefault(title), tags |-> <<>>, importance |-> 3,
                 blocks |-> << [id |-> nanoid(nid, 2), type |-> "markdown",
                                text |-> "Describe this thought."] >>]
        added == BulkAdd(d.nodes, <<node>>)
        d1 == [d EXCEPT !.nodes = added.table]
        st1 == [st EXCEPT !.nodes = WhereSpace(d1.nodes, st.activeSpaceId),
                          !.selectedNodeId = node.id]
    IN IF ~added.ok THEN Ret(d, st, nid + 2, "threw")
       ELSE IF parentId # Undefined
       THEN LET linked == linkNodes(d1, st1, nid + 2, parentId, node.id, "child")
            IN [linked EXCEPT !.res = IF linked.res = "threw" THEN "threw" ELSE "ok"]
       ELSE Ret(d1, st1, nid + 2, "ok")

updateNode(d, st, nid, nodeId, updates) ==
  LET existing == Find(st.nodes, LAMBDA node : node.id = nodeId)
      nextNode == updates @@ existing[1]
  IN IF existing = <<>> THEN Ret(d, st, nid, "noop")
     ELSE Ret([d EXCEPT !.nodes = TablePut(@, nextNode)],
              [st EXCEPT !.nodes = [i \in DOMAIN @ |->
                                      IF @[i].id = nodeId THEN nextNode ELSE @[i]]],
              nid, "ok")

updateView(d, st, nid, view) ==
  IF st.activeSpaceId = Undefined THEN Ret(d, st, nid, "noop")
  ELSE
    LET nextView == [camera |-> Field(view, "camera", st.view.camera),
                     mode |-> Field(view, "mode", Field(st.view, "mode", "observe"))]
                      @@ view @@ st.view
    IN Ret([d EXCEPT !.spaceViewState =
                       ViewPut(@, [spaceId |-> st.activeSpaceId] @@ nextView)],
           [st EXCEPT !.view = nextView],
           nid, "ok")

resetView(d, st, nid) ==
  IF st.activeSpaceId = Undefined THEN Ret(d, st, nid, "noop")
  ELSE LET space == Find(st.spaces, LAMBDA s : s.id = st.activeSpaceId)
           fallbackView == IF space = <<>> THEN defaultViewState
                           ELSE Field(space[1], "view", defaultViewState)
       IN Ret([d EXCEPT !.spaceViewState =
                          ViewPut(@, [spaceId |-> st.activeSpaceId] @@ fallbackView)],
              [st EXCEPT !.view = fallbackView], nid, "ok")


\* String.prototype.includes
includes(text, query) ==
  \E i \in 0..(Len(text) - Len(query)) : SubSeq(text, i + 1, i + Len(query)) = query

\* String.prototype.trim; the white space modelled is the space character.
RECURSIVE trim(_)
trim(text) ==
  IF text = "" THEN ""
  ELSE IF SubSeq(text, 1, 1) = " " THEN trim(SubSeq(text, 2, Len(text)))
  ELSE IF SubSeq(text, Len(text), Len(text)) = " " THEN trim(SubSeq(text, 1, Len(text) - 1))
  ELSE text

\* slice(0, end) of a string or an array
slice(s, end) == SubSeq(s, 1, IF Len(s) < end THEN Len(s) ELSE end)

isMarkdownBlock(block) == block.type = "markdown"

\* The blocks of a node that search's some() and find() accept.
MatchingBlocks(node, lower) ==
  SelectSeq(node.blocks,
            LAMBDA block : isMarkdownBlock(block) /\ includes(toLowerCase(block.text), lower))

MatchesTitleOnly(node, lower) == includes(toLowerCase(node.title), lower)

\* The filter of search.
Matches(node, lower) ==
  includes(toLowerCase(node.title), lower) \/ MatchingBlocks(node, lower) # <<>>

SnippetOfFirstBlock(node, lower) ==
  LET markdown == SelectSeq(node.blocks, isMarkdownBlock)
  IN IF markdown = <<>> THEN node.title ELSE slice(markdown[1].text, 120)

\* matchingBlock?.text.slice(0, 120) ?? node.title
Snippet(node, lower) ==
  LET matchingBlock == MatchingBlocks(node, lower)
  IN IF matchingBlock = <<>> THEN node.title ELSE slice(matchingBlock[1].text, 120)

search(d, st, nid, query) ==
  LET st1 == [st EXCEPT !.searchQuery = query]
      lower == toLowerCase(query)
      found == slice(SelectSeq(st.nodes, LAMBDA node : Matches(node, lower)), 8)
  IN IF trim(query) = "" \/ st.activeSpaceId = Undefined
     THEN [value |-> <<>>] @@ Ret(d, st1, nid, "ok")
     ELSE [value |-> [i \in DOMAIN found |->
                        [id |-> found[i].id, title |-> found[i].title,
                         snippet |-> Snippet(found[i], lower)]]]
            @@ Ret(d, st1, nid, "ok")

deleteNode(d, st, nid, nodeId) ==
  IF st.activeSpaceId = Undefined THEN Ret(d, st, nid, "noop")
  ELSE
    LET d1 == [d EXCEPT !.nodes = TableDelete(d.nodes, nodeId),
                        !.edges = SelectSeq(d.edges, LAMBDA edge :
                                     ~(edge.spaceId = st.activeSpaceId
                                         /\ (edge.from = nodeId \/ edge.to = nodeId)))]
        nodes == WhereSpace(d1.nodes, st.activeSpaceId)
        edges == WhereSpace(d1.edges, st.activeSpaceId)
    IN Ret(d1, [st EXCEPT !.nodes = nodes, !.edges = edges,
                          !.selectedNodeId = FirstId(nodes)],
           nid, "ok")

selectNode(d, st, nid, nodeId) == Ret(d, [st EXCEPT !.selectedNodeId = nodeId], nid, "ok")

---------------------------------------------------------------------------
(* Export / import.  A JSON text is modelled by the tree JSON.parse reads  *)
(* from it: JSON.stringify leaves out every property whose value is        *)
(* undefined, and the reader sees undefined for a property that is not     *)
(* there.                                                                  *)

Drop(r, k) == [x \in DOMAIN r \ {k} |-> r[x]]

JsonNull == [null |-> TRUE]

IsNull(v) == "null" \in DOMAIN v

\* A parsed value that is neither null, an object nor an array (a number, a
\* string, a boolean) is the record of its typeof, and of its characters
\* for a string.  Where an array may stand (a sequence, indexed from 1) a
\* value that is no array stands as the function 0 :> value.
NotArray(v) == 0 :> v

IsArray(v) == 0 \notin DOMAIN v

\* typeof payload === 'object', for a payload that is not null
IsObject(payload) == "typeof" \notin DOMAIN payload

\* v.length: undefined (the empty sequence here) for a number, a boolean or
\* a plain object.
Length(v) ==
  IF IsArray(v) THEN <<Len(v)>>
  ELSE IF Field(v[0], "typeof", "object") = "string" THEN <<Len(v[0].chars)>>
  ELSE <<>>

\* for (const x of v) throws a TypeError unless v is an array or a string.
Iterable(v) == IsArray(v) \/ Field(v[0], "typeof", "object") = "string"

\* What for...of yields: the entries of an array, the characters of a
\* string.  Spreading a character gives an object with the character under
\* the index 0 and no other property.
Items(v) == IF IsArray(v) THEN v ELSE [i \in DOMAIN v[0].chars |-> [char |-> v[0].chars[i]]]

StringifyEdge(edge) == IF edge.relation = NoRelation THEN Drop(edge, "relation") ELSE edge

StringifySettings(a) ==
  IF a.lastOpenedSpaceId = Undefined THEN Drop(a, "lastOpenedSpaceId") ELSE a

exportAll(d) ==
  [schemaVersion |-> currentSchemaVersion,
   spaces |-> d.spaces,
   nodes |-> d.nodes,
   edges |-> [i \in DOMAIN d.edges |-> StringifyEdge(d.edges[i])],
   spaceViewState |-> d.spaceViewState,
   appSettings |-> [i \in DOMAIN d.appSettings |-> StringifySettings(d.appSettings[i])]]

exportSpace(d, spaceId) ==
  LET edges == WhereSpace(d.edges, spaceId)
  IN [schemaVersion |-> currentSchemaVersion,
      spaces |-> SelectSeq(d.spaces, LAMBDA s : s.id = spaceId),
      nodes |-> WhereSpace(d.nodes, spaceId),
      edges |-> [i \in DOMAIN edges |-> StringifyEdge(edges[i])],
      spaceViewState |-> ViewGet(d.spaceViewState, spaceId)]

Max(S) == CHOOSE x \in S : \A y \in S : y <= x

ImportedSpaceIdReused(space, fresh) == space.id

\* The id the imported copy of a space is stored under.
ImportedSpaceId(space, fresh) == fresh

ImportableEdgesAll(relatedEdges, relatedNodes) == relatedEdges

\* The edges of one incoming space that importData keeps: both endpoints
\* are keys of nodeMap, that is ids of the space's incoming nodes.
ImportableEdges(relatedEdges, relatedNodes) ==
  LET mapped == {relatedNodes[i].id : i \in DOMAIN relatedNodes}
  IN SelectSeq(relatedEdges, LAMBDA edge : edge.from \in mapped /\ edge.to \in mapped)

\* importData's loop over the incoming spaces, one statement group per
\* definition.  acc carries the tables as written so far, the identifiers
\* drawn and the three counters; ok turns FALSE at the first statement that
\* throws and nothing is written after it.
Thrown(acc) == [acc EXCEPT !.ok = FALSE]

\* The view state of the incoming space is looked up and put.  find()
\* reads entry.spaceId of every entry up to the first match.
ImportView(acc, data, space, newSpaceId) ==
  LET dataViews == IF "spaceViewState" \in DOMAIN data THEN data.spaceViewState
                   ELSE Field(data, "views", <<>>)
      firstMatch == {i \in DOMAIN dataViews :
                       ~IsNull(dataViews[i])
                         /\ dataViews[i].spaceId = Field(space, "id", Undefined)}
      scanned == IF firstMatch = {} THEN DOMAIN dataViews
                 ELSE 1..(CHOOSE i \in firstMatch : \A j \in firstMatch : i <= j)
      view == Find(SelectSeq(dataViews, LAMBDA entry : ~IsNull(entry)),
                   LAMBDA entry : entry.spaceId = Field(space, "id", Undefined))
  IN IF \E i \in scanned : IsNull(dataViews[i]) THEN Thrown(acc)
     ELSE [acc EXCEPT !.db.spaceViewState =
                         ViewPut(acc.db.spaceViewState,
                                 [spaceId |-> newSpaceId] @@ OrElse(view, defaultViewState))]

\* The edges of the incoming space are filtered, remapped through nodeMap
\* and added.  nodeBase is the count of identifiers drawn before the nodes'.
ImportEdges(acc, data, space, newSpaceId, relatedNodes, nodeBase) ==
  LET dataEdges == Field(data, "edges", <<>>)
      nodeMap(old) ==
        LET at == {i \in DOMAIN relatedNodes : relatedNodes[i].id = old}
        IN IF at = {} THEN Undefined ELSE nanoid(nodeBase, Max(at))
      relatedEdges == SelectSeq(dataEdges,
                                LAMBDA edge : edge.spaceId = Field(space, "id", Undefined))
      kept == ImportableEdges(relatedEdges, relatedNodes)
      addEdges == BulkAdd(acc.db.edges,
                          [j \in DOMAIN kept |->
                             [id |-> nanoid(acc.nid, j), spaceId |-> newSpaceId,
                              from |-> nodeMap(kept[j].from), to |-> nodeMap(kept[j].to),
                              relation |-> Field(kept[j], "relation", NoRelation)]])
  IN IF Some(dataEdges, IsNull) THEN Thrown(acc)
     ELSE IF ~addEdges.ok THEN Thrown(acc)
     ELSE ImportView([acc EXCEPT !.db.edges = addEdges.table, !.nid = acc.nid + Len(kept),
                                 !.addedEdges = acc.addedEdges + Len(kept)],
                     data, space, newSpaceId)

\* The nodes of the incoming space are filtered, given new ids and added.
ImportNodes(acc, data, space, newSpaceId) ==
  LET dataNodes == Field(data, "nodes", <<>>)
      relatedNodes == SelectSeq(dataNodes,
                                LAMBDA node : node.spaceId = Field(space, "id", Undefined))
      addNodes == BulkAdd(acc.db.nodes,
                          [i \in DOMAIN relatedNodes |->
                             [relatedNodes[i] EXCEPT !.id = nanoid(acc.nid, i),
                                                     !.spaceId = newSpaceId]])
  IN IF Some(dataNodes, IsNull) THEN Thrown(acc)
     ELSE IF ~addNodes.ok THEN Thrown(acc)
     ELSE ImportEdges([acc EXCEPT !.db.nodes = addNodes.table,
                                  !.nid = acc.nid + Len(relatedNodes),
                                  !.addedNodes = acc.addedNodes + Len(relatedNodes)],
                      data, space, newSpaceId, relatedNodes, acc.nid)

\* The incoming space is cloned under newSpaceId and added.
ImportSpaceRecord(acc, data, space, newSpaceId) ==
  LET clonedSpace == [id |-> newSpaceId,
                      name |-> Field(space, "name", "undefined") \o " (imported)"] @@ space
      addSpace == BulkAdd(acc.db.spaces, <<clonedSpace>>)
  IN IF ~addSpace.ok THEN Thrown([acc EXCEPT !.nid = acc.nid + 1])
     ELSE ImportNodes([acc EXCEPT !.db.spaces = addSpace.table, !.nid = acc.nid + 1,
                                  !.addedSpaces = acc.addedSpaces + 1],
                      data, space, newSpaceId)

\* One pass of the loop.
ImportSpace(acc, data, space) ==
  IF ~acc.ok THEN acc
  ELSE IF IsNull(space) THEN Thrown([acc EXCEPT !.nid = acc.nid + 1])
  ELSE ImportSpaceRecord(acc, data, space, ImportedSpaceId(space, nanoid(acc.nid, 1)))

RECURSIVE ImportSpaces(_, _, _)
ImportSpaces(acc, data, spaces) ==
  IF spaces = <<>> THEN acc
  ELSE ImportSpaces(ImportSpace(acc, data, Head(spaces)), data, Tail(spaces))

\* The settings record importData puts after the loop.
ImportSettings(acc, data) ==
  LET incomingSettings == Find(Field(data, "appSettings", <<>>),
                               LAMBDA entry : entry.key = "app")
      mergedSettings ==
        SettingsFor(IF incomingSettings = <<>> THEN Undefined
                    ELSE Field(incomingSettings[1], "lastOpenedSpaceId", Undefined))
  IN IF acc.ok THEN [acc EXCEPT !.db.appSettings = <<mergedSettings>>] ELSE acc

\* The body of importData's transaction: the loop, then the settings record.
ImportBody(d, nid, data) ==
  IF ~Iterable(data.spaces)
  THEN Thrown([ok |-> TRUE, db |-> d, nid |-> nid, addedSpaces |-> 0,
               addedNodes |-> 0, addedEdges |-> 0])
  ELSE ImportSettings(ImportSpaces([ok |-> TRUE, db |-> d, nid |-> nid, addedSpaces |-> 0,
                                    addedNodes |-> 0, addedEdges |-> 0],
                                   data, Items(data.spaces)),
                      data)

ImportWithoutTransaction(d, body) == body.db

\* db.transaction('rw', [...all five tables...], body): the tables the body
\* left when it ran to its end; the tables as they were when it threw.
ImportTransaction(d, body) == IF body.ok THEN body.db ELSE d

ImportRefreshOpeningFirst(st, body, d1) ==
  IF ~body.ok THEN [value |-> <<>>] @@ Ret(d1, st, body.nid, "threw")
  ELSE [value |-> << [addedSpaces |-> body.addedSpaces, addedNodes |-> body.addedNodes,
                      addedEdges |-> body.addedEdges] >>]
       @@ Ret(d1, [st EXCEPT !.spaces = d1.spaces,
                             !.activeSpaceId = FirstId(d1.spaces),
                             !.nodes = WhereSpace(d1.nodes, FirstId(d1.spaces)),
                             !.edges = WhereSpace(d1.edges, FirstId(d1.spaces)),
                             !.selectedNodeId = Undefined,
                             !.appSettings = OrElse(SettingsGet(d1), defaultAppSettings)],
              body.nid, "ok")

\* importData after its transaction left the tables d1: the refresh of the
\* read model and the counts returned, or the rejection.
ImportRefresh(st, body, d1) ==
  IF ~body.ok THEN [value |-> <<>>] @@ Ret(d1, st, body.nid, "threw")
  ELSE [value |-> << [addedSpaces |-> body.addedSpaces, addedNodes |-> body.addedNodes,
                      addedEdges |-> body.addedEdges] >>]
       @@ Ret(d1, [st EXCEPT !.spaces = d1.spaces,
                             !.appSettings = OrElse(SettingsGet(d1), defaultAppSettings)],
              body.nid, "ok")

ImportSettle(d, st, body) == ImportRefresh(st, body, ImportTransaction(d, body))

importData(d, st, nid, payload) ==
  IF IsNull(payload) THEN [value |-> <<>>] @@ Ret(d, st, nid, "noop")
  ELSE IF ~IsObject(payload) THEN [value |-> <<>>] @@ Ret(d, st, nid, "noop")
  ELSE IF Length(Field(payload, "spaces", <<>>)) = <<0>>
  THEN [value |-> <<>>] @@ Ret(d, st, nid, "noop")
  ELSE ImportSettle(d, st, ImportBody(d, nid, payload))

---------------------------------------------------------------------------
(* The schema upgrade *)

\* Table.bulkPut on spaceViewState
RECURSIVE ViewBulkPut(_, _)
ViewBulkPut(t, rs) == IF rs = <<>> THEN t ELSE ViewBulkPut(ViewPut(t, Head(rs)), Tail(rs))

UpgradeWithoutViews(d, legacyViews) ==
  [d EXCEPT !.appSettings =
              <<[key |-> "app", schemaVersion |-> currentSchemaVersion,
                 lastOpenedSpaceId |-> Undefined]>>]

\* The upgrade function of version 2.
Upgrade(d, legacyViews) ==
  [d EXCEPT !.spaceViewState = IF Len(legacyViews) > 0 THEN ViewBulkPut(@, legacyViews) ELSE @,
            !.appSettings =
              <<[key |-> "app", schemaVersion |-> currentSchemaVersion,
                 lastOpenedSpaceId |-> Undefined]>>]

---------------------------------------------------------------------------
(* The state machine *)

AllIds(d) ==
  {d.spaces[i].id : i \in DOMAIN d.spaces} \cup {d.nodes[i].id : i \in DOMAIN d.nodes}
    \cup {d.edges[i].id : i \in DOMAIN d.edges}

\* What a step records of the call it made: the operation, its arguments
\* (a, b: ids; r: a relation, name or title), how it ended and what it
\* returned; whether it repeats the call before it (again), or repeats it
\* with a and b exchanged (reversed); and facts about the tables and the
\* read model as they were when the call was made.
Call(op, a, b, r, result, value) ==
  [op |-> op, a |-> a, b |-> b, r |-> r, res |-> result.res, value |-> value,
   again |-> (last.op = op /\ last.a = a /\ last.b = b /\ last.r = r),
   reversed |-> (last.op = op /\ last.a = b /\ last.b = a /\ last.r = r),
   pvalue |-> last.value,
   dbChanged |-> (result.db # db),
   memChanged |-> (result.state # state),
   active |-> state.activeSpaceId,
   aNode |-> HasKey(db.nodes, a),
   aSpace |-> HasKey(db.spaces, a),
   nSpaces |-> Len(db.spaces), nNodes |-> Len(db.nodes), nEdges |-> Len(db.edges),
   idsBefore |-> IF op = "importData" THEN AllIds(db) ELSE {}]

NoCall ==
  [op |-> "none", a |-> Undefined, b |-> Undefined, r |-> NoRelation, res |-> "ok",
   value |-> <<>>, again |-> FALSE, reversed |-> FALSE, pvalue |-> <<>>,
   dbChanged |-> FALSE, memChanged |-> FALSE, active |-> Undefined,
   aNode |-> FALSE, aSpace |-> FALSE, nSpaces |-> 0, nNodes |-> 0, nEdges |-> 0,
   idsBefore |-> {}]

Init ==
  /\ db = EmptyDb
  /\ state = InitialState
  /\ nextId = 0
  /\ steps = 0
  /\ last = NoCall
  /\ file = JsonNull
  /\ idb = [verno |-> currentSchemaVersion, views |-> <<>>]
  /\ calls = <<>>

\* A call of the store: its first table access opens the database, so the
\* upgrade has run before it.
Step(result, call) ==
  /\ steps < MaxSteps
  /\ idb.verno = currentSchemaVersion
  /\ UNCHANGED <<idb, calls>>
  /\ db' = result.db
  /\ state' = result.state
  /\ nextId' = result.nextId
  /\ steps' = steps + 1
  /\ last' = call

\* The space ids a caller passes: the first and the last stored space and an
\* id that names nothing.
SpaceArgs ==
  {GhostId} \cup (IF db.spaces = <<>> THEN {}
                  ELSE {db.spaces[1].id, db.spaces[Len(db.spaces)].id})

\* The node ids a caller passes: the first and last node the read model
\* lists, the first stored node of another space, and an id that names
\* nothing.
ActiveNodeArgs ==
  IF state.nodes = <<>> THEN {}
  ELSE {state.nodes[1].id, state.nodes[Len(state.nodes)].id}

OtherNodeArgs ==
  LET others == SelectSeq(db.nodes, LAMBDA n : n.spaceId # state.activeSpaceId)
  IN IF others = <<>> THEN {} ELSE {others[1].id}

NodeArgs == {GhostId} \cup ActiveNodeArgs \cup OtherNodeArgs

\* linkNodes' arguments: from, to and relation.  The interface passes
\* 'related'; the relation is left out in calls from the first listed node.
LinkArgs ==
  {<<fromId, toId, "related">> :
     fromId \in ActiveNodeArgs \cup OtherNodeArgs, toId \in ActiveNodeArgs \cup {GhostId}}
    \cup {<<fromId, toId, NoRelation>> :
            fromId \in (IF state.nodes = <<>> THEN {} ELSE {state.nodes[1].id}),
            toId \in ActiveNodeArgs}

\* addSpaceFromTemplate's arguments: a key, a name in another case with the
\* overrides the creation dialog passes, and a name no template has.
TemplateArgs ==
  { <<"blank", <<>> >>,
    <<"research brain", [name |-> "My Space", icon |-> "star"]>>,
    <<"no such template", <<>> >> }

\* createNode's arguments: parentId (Undefined when omitted) and title.
CreateArgs ==
  {<<parentId, "Idea">> : parentId \in NodeArgs} \cup {<<Undefined, " ">>}

InitCall ==
  LET result == init(db, state, nextId)
  IN Step(result, Call("init", Undefined, Undefined, NoRelation, result, <<>>))
       /\ UNCHANGED file

SetActiveSpace ==
  \E spaceId \in SpaceArgs :
    LET result == setActiveSpace(db, state, nextId, spaceId)
    IN Step(result, Call("setActiveSpace", spaceId, Undefined, NoRelation, result, <<>>))
         /\ UNCHANGED file

AddSpaceFromTemplate ==
  \E args \in TemplateArgs :
    LET result == addSpaceFromTemplate(db, state, nextId, args[1], args[2])
    IN Step(result, Call("addSpaceFromTemplate", Undefined, Undefined, args[1], result,
                         <<args[2]>>))
         /\ UNCHANGED file

DeleteSpace ==
  \E spaceId \in SpaceArgs :
    LET result == deleteSpace(db, state, nextId, spaceId)
    IN Step(result, Call("deleteSpace", spaceId, Undefined, NoRelation, result, <<>>))
         /\ UNCHANGED file

CreateNode ==
  \E args \in CreateArgs :
    LET result == createNode(db, state, nextId, args[1], args[2])
    IN Step(result, Call("createNode", args[1], Undefined, args[2], result, <<>>))
         /\ UNCHANGED file

DeleteNode ==
  \E nodeId \in NodeArgs :
    LET result == deleteNode(db, state, nextId, nodeId)
    IN Step(result, Call("deleteNode", nodeId, Undefined, NoRelation, result, <<>>))
         /\ UNCHANGED file

LinkNodes ==
  \E args \in LinkArgs :
    LET result == linkNodes(db, state, nextId, args[1], args[2], args[3])
    IN Step(result, Call("linkNodes", args[1], args[2], args[3], result, <<>>))
         /\ UNCHANGED file

\* updateNode's updates: a new title, or new tags and importance.
UpdateArgs ==
  { [title |-> "Renamed"], [tags |-> <<"later">>, importance |-> 5] }

UpdateNode ==
  \E nodeId \in NodeArgs, updates \in UpdateArgs :
    LET result == updateNode(db, state, nextId, nodeId, updates)
    IN Step(result, Call("updateNode", nodeId, Undefined, NoRelation, result, <<updates>>))
         /\ UNCHANGED file

\* updateView's partial view states: the environment, the mode, the camera.
ViewArgs ==
  { [environment |-> "white-room"], [mode |-> "edit"],
    [camera |-> [position |-> <<1, 2, 3>>, target |-> <<0, 0, 0>>]] }

UpdateView ==
  \E view \in ViewArgs :
    LET result == updateView(db, state, nextId, view)
    IN Step(result, Call("updateView", Undefined, Undefined, NoRelation, result, <<view>>))
         /\ UNCHANGED file

\* A backup file with one entry of one of its arrays damaged.
Damaged(payload, array) == [payload EXCEPT ![array] = @ \o <<JsonNull>>]

\* The files a user can pick: a backup just exported (whole store or one
\* space), such a backup damaged, the file picked last time, or a file
\* holding JSON null.
Payloads ==
  {exportAll(db), file, JsonNull}
    \cup {exportSpace(db, spaceId) : spaceId \in {state.activeSpaceId, GhostId}}
    \cup {Damaged(exportAll(db), array) :
            array \in {"spaces", "nodes", "edges", "spaceViewState"}}

\* No file is read once the calls of a behaviour are used up.
ImportData ==
  /\ steps < MaxSteps
  /\ \E payload \in Payloads :
       LET result == importData(db, state, nextId, payload)
       IN /\ Step(result,
                  [Call("importData", Undefined, Undefined, NoRelation, result, result.value)
                     EXCEPT !.again = (last.op = "importData" /\ file = payload)])
          /\ file' = payload

ResetView ==
  LET result == resetView(db, state, nextId)
  IN Step(result, Call("resetView", Undefined, Undefined, NoRelation, result, <<>>))
       /\ UNCHANGED file

\* A version 1 view state has no mode.
LegacyView(view) == Drop(view, "mode")

\* The backup version 1 of the application writes: the view states are
\* under `views`, and there are no appSettings.
LegacyExport(payload) ==
  [x \in (DOMAIN payload \ {"spaceViewState", "appSettings"}) \cup {"views"} |->
     IF x = "views"
     THEN [i \in DOMAIN payload.spaceViewState |-> LegacyView(payload.spaceViewState[i])]
     ELSE IF x = "schemaVersion" THEN 1
     ELSE payload[x]]

\* The backups whose view states come under either name: a current backup
\* of the active Space or of the whole store, the same as version 1 wrote
\* it, one carrying both arrays, one carrying both with no entry in
\* spaceViewState, and one carrying neither.
ViewPayloads ==
  LET one == exportSpace(db, state.activeSpaceId)
      legacy == LegacyExport(one)
  IN { one, legacy, LegacyExport(exportAll(db)),
       [views |-> legacy.views] @@ one,
       [views |-> legacy.views, spaceViewState |-> <<>>] @@ one,
       Drop(one, "spaceViewState") }

ImportViews ==
  \E payload \in ViewPayloads :
    LET result == importData(db, state, nextId, payload)
    IN /\ Step(result,
               [Call("importData", Undefined, Undefined, NoRelation, result, result.value)
                  EXCEPT !.again = (last.op = "importData" /\ file = payload)])
       /\ file' = payload

\* The files of other origin a user can pick: a JSON number, an object
\* without spaces, with an empty spaces array, and with spaces that is an
\* object or a string instead of an array.
ForeignPayloads ==
  { [typeof |-> "number"],
    [nodes |-> <<>>],
    [spaces |-> <<>>, nodes |-> <<>>],
    [spaces |-> NotArray([typeof |-> "object"])],
    [spaces |-> NotArray([typeof |-> "string", chars |-> <<"a", "b">>])] }

ImportForeign ==
  \E payload \in ForeignPayloads \cup {JsonNull, exportAll(db)} :
    LET result == importData(db, state, nextId, payload)
    IN /\ Step(result,
               [Call("importData", Undefined, Undefined, NoRelation, result, result.value)
                  EXCEPT !.again = (last.op = "importData" /\ file = payload)])
       /\ file' = payload

\* The application is closed and opened again: the tables stay, the
\* in-memory state is constructed anew.
Restart ==
  /\ state # InitialState
  /\ state' = InitialState
  /\ last' = [NoCall EXCEPT !.op = "restart"]
  /\ UNCHANGED <<db, nextId, steps, file, idb, calls>>

Next ==
  \/ InitCall
  \/ SetActiveSpace
  \/ AddSpaceFromTemplate
  \/ DeleteSpace
  \/ CreateNode
  \/ DeleteNode
  \/ LinkNodes
  \/ ImportData
  \/ Restart

Spec == Init /\ [][Next]_vars

\* The behaviours made of init, addSpaceFromTemplate, createNode, linkNodes,
\* deleteNode, deleteSpace and importData only, within one session.
NextListed ==
  \/ InitCall
  \/ AddSpaceFromTemplate
  \/ DeleteSpace
  \/ CreateNode
  \/ DeleteNode
  \/ LinkNodes
  \/ ImportData

SpecListed == Init /\ [][NextListed]_vars

\* A store that version 1 of the application left: its four seeded spaces
\* with their nodes and edges, and in views a record for any of the first
\* three of them (a version 1 view state has no mode).
V1Views ==
  {[camera |-> DefaultCamera, environment |-> environment, edgeVisibility |-> edgeVisibility] :
     environment \in {"dome", "white-room"}, edgeVisibility \in {"neighborhood", "all"}}

V1Stores ==
  LET seeded == buildTemplates(0)
      keys == {seeded.spaces[i].id : i \in 1..3}
      RECURSIVE Table(_, _)
      Table(f, ks) ==
        IF ks = {} THEN <<>>
        ELSE LET k == CHOOSE x \in ks : \A y \in ks : x <= y
             IN <<[spaceId |-> k] @@ f[k]>> \o Table(f, ks \ {k})
  IN {[spaces |-> seeded.spaces, nodes |-> seeded.nodes, edges |-> seeded.edges,
       views |-> Table(f, ks)] : f \in [keys -> V1Views], ks \in SUBSET keys}

InitV1 ==
  \E store \in V1Stores :
    /\ db = [EmptyDb EXCEPT !.spaces = store.spaces, !.nodes = store.nodes,
                            !.edges = store.edges]
    /\ idb = [verno |-> 1, views |-> store.views]
    /\ calls = <<>>
    /\ state = InitialState
    /\ nextId = SeedIds
    /\ steps = 0
    /\ last = NoCall
    /\ file = JsonNull

\* The database is opened by version 2 of the application for the first
\* time: Dexie runs the upgrade function.
Open ==
  /\ idb.verno < currentSchemaVersion
  /\ db' = Upgrade(db, idb.views)
  /\ idb' = [idb EXCEPT !.verno = currentSchemaVersion]
  /\ last' = [NoCall EXCEPT !.op = "open"]
  /\ UNCHANGED <<state, nextId, steps, file, calls>>

NextV1 ==
  \/ Open
  \/ InitCall
  \/ SetActiveSpace
  \/ Restart

SpecV1 == InitV1 /\ [][NextV1]_vars

\* The behaviours in which nodes and the view are edited.
NextEdit ==
  \/ InitCall
  \/ SetActiveSpace
  \/ CreateNode
  \/ UpdateNode
  \/ UpdateView
  \/ Restart

SpecEdit == Init /\ [][NextEdit]_vars

\* Overrides are a Partial<SpaceRecord>: besides name and icon they may
\* carry an id, that of a stored Space or one that names nothing.
AddSpaceWithId ==
  \E spaceId \in SpaceArgs :
    LET overrides == [id |-> spaceId, name |-> "Copy"]
        result == addSpaceFromTemplate(db, state, nextId, "life", overrides)
    IN Step(result, Call("addSpaceFromTemplate", spaceId, Undefined, "life", result,
                         <<overrides>>))
         /\ UNCHANGED file

\* The behaviours in which Spaces are added and deleted.
NextTemplate ==
  \/ InitCall
  \/ AddSpaceFromTemplate
  \/ AddSpaceWithId
  \/ DeleteSpace
  \/ Restart

SpecTemplate == Init /\ [][NextTemplate]_vars

\* The behaviours in which the view is changed, reset and carried through
\* backups.
NextView ==
  \/ InitCall
  \/ SetActiveSpace
  \/ UpdateView
  \/ ResetView
  \/ ImportViews
  \/ Restart

SpecView == Init /\ [][NextView]_vars

\* The behaviours in which the view of a store written by version 1 is
\* changed and reset.
NextLegacy ==
  \/ Open
  \/ InitCall
  \/ SetActiveSpace
  \/ UpdateView
  \/ ResetView
  \/ Restart

SpecLegacy == InitV1 /\ [][NextLegacy]_vars

\* A text longer than a snippet: 132 characters.
LongText ==
  "Needle 012345678901234567890123456789012345678901234567890123456789012345678901234567890123456789012345678901234567890123456789 tail"

\* The blocks the editor saves for a node: a link, a short note and a long
\* note, with identifiers drawn after `base`.
EditedBlocks(base) ==
  << [id |-> nanoid(base, 1), type |-> "link", url |-> "https://needle.example",
      label |-> "Needle"],
     [id |-> nanoid(base, 2)] @@ Markdown("Short note"),
     [id |-> nanoid(base, 3)] @@ Markdown(LongText) >>

\* The editor saves the first listed node with new blocks.
EditBlocks ==
  /\ state.nodes # <<>>
  /\ LET result == updateNode(db, state, nextId + 3, state.nodes[1].id,
                              [blocks |-> EditedBlocks(nextId)])
     IN Step(result, Call("updateNode", state.nodes[1].id, Undefined, NoRelation, result,
                          <<[blocks |-> EditedBlocks(nextId)]>>))
          /\ UNCHANGED file

\* The queries typed into the search box.
SearchArgs ==
  {"", "  ", "e", " e", "resources", "RESOURCES", "three", "youtube", "capture",
   "needle", "tail", "note", "zzz"}

Search ==
  \E query \in SearchArgs :
    LET result == search(db, state, nextId, query)
    IN Step(result, Call("search", Undefined, Undefined, query, result, result.value))
         /\ UNCHANGED file

\* The store after k nodes were created in the active Space.
RECURSIVE Grown(_, _)
Grown(result, k) ==
  IF k = 0 THEN result
  ELSE Grown(createNode(result.db, result.state, result.nextId, Undefined, "Idea"), k - 1)

\* The seeded store with its i-th Space opened.
Opened(seeded, i) ==
  setActiveSpace(seeded.db, seeded.state, seeded.nextId, seeded.db.spaces[i].id)

\* The stores searched: the seeded store with 'Research Brain' open, and
\* with 'Startup Map' (seven nodes) open and two nodes created in it.
InitSearch ==
  \E grown \in {<<2, 0>>, <<4, 2>>} :
    LET store == Grown(Opened(init(EmptyDb, InitialState, 0), grown[1]), grown[2])
    IN /\ db = store.db
       /\ state = store.state
       /\ nextId = store.nextId
       /\ steps = 0
       /\ last = NoCall
       /\ file = JsonNull
       /\ idb = [verno |-> currentSchemaVersion, views |-> <<>>]
       /\ calls = <<>>

\* The behaviours in which the store is searched.
NextSearch ==
  \/ InitCall
  \/ SetActiveSpace
  \/ EditBlocks
  \/ Search
  \/ Restart

SpecSearch == InitSearch /\ [][NextSearch]_vars

\* The behaviours in which files of any origin are imported.
NextBoundary ==
  \/ InitCall
  \/ AddSpaceFromTemplate
  \/ DeleteSpace
  \/ ImportForeign
  \/ Restart

SpecBoundary == Init /\ [][NextBoundary]_vars

\* selectNode's argument: a listed node, or undefined to clear the selection.
SelectNode ==
  \E nodeId \in ActiveNodeArgs \cup {Undefined} :
    LET result == selectNode(db, state, nextId, nodeId)
    IN Step(result, Call("selectNode", nodeId, Undefined, NoRelation, result, <<>>))
         /\ UNCHANGED file

\* Updates are a Partial<NodeRecord>: the whole edited record, as the editor
\* passes it, or a record that carries an id (of another listed node, or one
\* that names nothing) or the spaceId of another space.
WholeNodeArgs(nodeId) ==
  LET existing == Find(state.nodes, LAMBDA node : node.id = nodeId)
  IN IF existing = <<>> THEN {} ELSE {[existing[1] EXCEPT !.title = "Edited"]}

IdentityArgs(nodeId) ==
  WholeNodeArgs(nodeId)
    \cup {[id |-> id, title |-> "Moved"] : id \in (ActiveNodeArgs \cup {GhostId}) \ {nodeId}}
    \cup {[spaceId |-> spaceId] : spaceId \in SpaceArgs \ {state.activeSpaceId}}

UpdateIdentity ==
  \E nodeId \in ActiveNodeArgs :
    \E updates \in IdentityArgs(nodeId) :
      LET result == updateNode(db, state, nextId, nodeId, updates)
      IN Step(result, Call("updateNode", nodeId, Undefined, NoRelation, result, <<updates>>))
           /\ UNCHANGED file

\* The behaviours in which nodes are selected, edited and deleted.
NextNode ==
  \/ InitCall
  \/ SetActiveSpace
  \/ SelectNode
  \/ CreateNode
  \/ UpdateIdentity
  \/ DeleteNode
  \/ Restart

SpecNode == Init /\ [][NextNode]_vars

---------------------------------------------------------------------------
(* Overlapping calls *)

\* A call that is not awaited runs up to its first table request and then
\* yields; each of its requests is carried out later, in the order of
\* issue within the call and in any order against the requests of other
\* calls, and the code after the await runs with the request's answer, up
\* to the next request.  A step below is one request and the code after it.

Without(s, i) == SubSeq(s, 1, i - 1) \o SubSeq(s, i + 1, Len(s))

\* The call at position i goes on with these local values.
Proceed(i, locals) == calls' = [calls EXCEPT ![i] = locals @@ @]

\* The call at position i has returned.
Return(i) == calls' = Without(calls, i)

At(i, op, pc) == calls[i].op = op /\ calls[i].pc = pc

\* init is called (the mounting effect): it issues its settings read.
BeginInit ==
  /\ steps < MaxSteps
  /\ idb.verno = currentSchemaVersion
  /\ calls' = Append(calls, [op |-> "init", pc |-> "settings"])
  /\ steps' = steps + 1
  /\ UNCHANGED <<db, state, nextId, last, file, idb>>

\* await db.appSettings.get('app')
InitAwaitSettings ==
  \E i \in DOMAIN calls :
    /\ At(i, "init", "settings")
    /\ Proceed(i, [pc |-> "count",
                   appSettings |-> OrElse(SettingsGet(db), defaultAppSettings)])
    /\ UNCHANGED <<db, state, nextId, steps, last, file, idb>>

\* await db.spaces.count(), and buildTemplates when it answers 0.
InitAwaitCount ==
  \E i \in DOMAIN calls :
    /\ At(i, "init", "count")
    /\ IF Len(db.spaces) = 0
       THEN /\ Proceed(i, [pc |-> "seed", payload |-> buildTemplates(nextId)])
            /\ nextId' = nextId + SeedIds
       ELSE /\ Proceed(i, [pc |-> "migrate"])
            /\ UNCHANGED nextId
    /\ UNCHANGED <<db, state, steps, last, file, idb>>

\* await db.transaction(...): the seeding transaction.
InitAwaitSeed ==
  \E i \in DOMAIN calls :
    /\ At(i, "init", "seed")
    /\ LET tx == SeedTx(db, calls[i].payload)
       IN IF tx.ok
          THEN db' = tx.db /\ Proceed(i, [pc |-> "migrate", appSettings |-> tx.appSettings])
          ELSE db' = db /\ Return(i)
    /\ UNCHANGED <<state, nextId, steps, last, file, idb>>

\* The schema-version test and its await db.appSettings.put(appSettings).
InitAwaitMigrate ==
  \E i \in DOMAIN calls :
    /\ At(i, "init", "migrate")
    /\ LET appSettings == [calls[i].appSettings EXCEPT !.schemaVersion = currentSchemaVersion]
       IN /\ db' = IF calls[i].appSettings.schemaVersion # currentSchemaVersion
                   THEN [db EXCEPT !.appSettings = <<appSettings>>]
                   ELSE db
          /\ Proceed(i, [pc |-> "spaces", appSettings |-> appSettings])
    /\ UNCHANGED <<state, nextId, steps, last, file, idb>>

\* await db.spaces.toArray(), and the choice of the active space.
InitAwaitSpaces ==
  \E i \in DOMAIN calls :
    /\ At(i, "init", "spaces")
    /\ Proceed(i, [pc |-> "nodes", spaces |-> db.spaces,
                   activeSpaceId |-> InitActiveSpaceId(calls[i].appSettings, db.spaces)])
    /\ UNCHANGED <<db, state, nextId, steps, last, file, idb>>

\* await db.nodes.where({ spaceId: activeSpaceId }).toArray()
InitAwaitNodes ==
  \E i \in DOMAIN calls :
    /\ At(i, "init", "nodes")
    /\ Proceed(i, [pc |-> "edges",
                   nodes |-> IF calls[i].activeSpaceId # Undefined
                             THEN WhereSpace(db.nodes, calls[i].activeSpaceId) ELSE <<>>])
    /\ UNCHANGED <<db, state, nextId, steps, last, file, idb>>

\* await db.edges.where({ spaceId: activeSpaceId }).toArray()
InitAwaitEdges ==
  \E i \in DOMAIN calls :
    /\ At(i, "init", "edges")
    /\ Proceed(i, [pc |-> "view",
                   edges |-> IF calls[i].activeSpaceId # Undefined
                             THEN WhereSpace(db.edges, calls[i].activeSpaceId) ELSE <<>>])
    /\ UNCHANGED <<db, state, nextId, steps, last, file, idb>>

\* await db.spaceViewState.get(activeSpaceId)
InitAwaitView ==
  \E i \in DOMAIN calls :
    /\ At(i, "init", "view")
    /\ Proceed(i, [pc |-> "put",
                   viewRecord |-> IF calls[i].activeSpaceId # Undefined
                                  THEN ViewGet(db.spaceViewState, calls[i].activeSpaceId)
                                  ELSE <<>>])
    /\ UNCHANGED <<db, state, nextId, steps, last, file, idb>>

\* await db.appSettings.put(nextSettings), and the state set.
InitAwaitPut ==
  \E i \in DOMAIN calls :
    /\ At(i, "init", "put")
    /\ LET call == calls[i]
           nextSettings == [call.appSettings EXCEPT !.lastOpenedSpaceId = call.activeSpaceId]
       IN /\ db' = [db EXCEPT !.appSettings = <<nextSettings>>]
          /\ state' = [state EXCEPT !.initialized = TRUE, !.spaces = call.spaces,
                                    !.activeSpaceId = call.activeSpaceId,
                                    !.nodes = call.nodes, !.edges = call.edges,
                                    !.view = OrElse(call.viewRecord, defaultViewState),
                                    !.appSettings = nextSettings]
    /\ Return(i)
    /\ UNCHANGED <<nextId, steps, last, file, idb>>

\* linkNodes is called and not awaited (handleSelect): its tests over the
\* read model, the new edge, and the issue of db.edges.add(edge).
BeginLink ==
  \E args \in LinkArgs :
    /\ steps < MaxSteps
    /\ idb.verno = currentSchemaVersion
    /\ steps' = steps + 1
    /\ IF LinkRefused(state, args[1], args[2])
            \/ EdgeExists(state.edges, args[1], args[2], args[3])
       THEN UNCHANGED <<calls, nextId>>
       ELSE /\ calls' = Append(calls,
                  [op |-> "linkNodes", pc |-> "add", spaceId |-> state.activeSpaceId,
                   edge |-> [id |-> nanoid(nextId, 1), spaceId |-> state.activeSpaceId,
                             from |-> args[1], to |-> args[2], relation |-> args[3]]])
            /\ nextId' = nextId + 1
    /\ UNCHANGED <<db, state, last, file, idb>>

\* await db.edges.add(edge)
LinkAwaitAdd ==
  \E i \in DOMAIN calls :
    /\ At(i, "linkNodes", "add")
    /\ LET added == BulkAdd(db.edges, <<calls[i].edge>>)
       IN IF added.ok
          THEN db' = [db EXCEPT !.edges = added.table] /\ Proceed(i, [pc |-> "read"])
          ELSE db' = db /\ Return(i)
    /\ UNCHANGED <<state, nextId, steps, last, file, idb>>

\* await db.edges.where({ spaceId }).toArray(), and set({ edges }).
LinkAwaitRead ==
  \E i \in DOMAIN calls :
    /\ At(i, "linkNodes", "read")
    /\ state' = [state EXCEPT !.edges = WhereSpace(db.edges, calls[i].spaceId)]
    /\ Return(i)
    /\ UNCHANGED <<db, nextId, steps, last, file, idb>>

\* The behaviours in which calls of init and linkNodes overlap.
NextOverlap ==
  \/ BeginInit
  \/ InitAwaitSettings
  \/ InitAwaitCount
  \/ InitAwaitSeed
  \/ InitAwaitMigrate
  \/ InitAwaitSpaces
  \/ InitAwaitNodes
  \/ InitAwaitEdges
  \/ InitAwaitView
  \/ InitAwaitPut
  \/ BeginLink
  \/ LinkAwaitAdd
  \/ LinkAwaitRead

SpecOverlap == Init /\ [][NextOverlap]_vars

\* The seeded store after init, with its first or its last Space opened.
InitOpened ==
  \E i \in {1, 4} :
    LET store == Opened(init(EmptyDb, InitialState, 0), i)
    IN /\ db = store.db
       /\ state = store.state
       /\ nextId = store.nextId
       /\ steps = 0
       /\ last = NoCall
       /\ file = JsonNull
       /\ idb = [verno |-> currentSchemaVersion, views |-> <<>>]
       /\ calls = <<>>

\* A call that ends at once (an early return) or is issued and yields.
Begun == steps < MaxSteps /\ steps' = steps + 1

\* updateView is called and not awaited (the toolbelt's buttons, the
\* persistence timer): the early return, nextView over the state it reads,
\* and the issue of db.spaceViewState.put.
BeginUpdateView ==
  \E view \in ViewArgs \cup {[edgeVisibility |-> "all"]} :
    /\ Begun
    /\ IF state.activeSpaceId = Undefined THEN UNCHANGED calls
       ELSE calls' = Append(calls,
              [op |-> "updateView", pc |-> "put", view |-> view,
               spaceId |-> state.activeSpaceId,
               nextView |-> updateView(db, state, nextId, view).state.view])
    /\ UNCHANGED <<db, state, nextId, last, file, idb>>

\* await db.spaceViewState.put({ ...nextView, spaceId }), and set({ view }).
UpdateViewAwaitPut ==
  \E i \in DOMAIN calls :
    /\ At(i, "updateView", "put")
    /\ LET call == calls[i]
           result == Ret([db EXCEPT !.spaceViewState =
                                      ViewPut(@, [spaceId |-> call.spaceId] @@ call.nextView)],
                         [state EXCEPT !.view = call.nextView], nextId, "ok")
       IN /\ db' = result.db
          /\ state' = result.state
          /\ last' = Call("updateView", Undefined, Undefined, NoRelation, result, <<call.view>>)
    /\ Return(i)
    /\ UNCHANGED <<nextId, steps, file, idb>>

\* updateNode is called and not awaited (the editor's commitNode): the
\* lookup in the state it reads, nextNode, and the issue of db.nodes.put.
BeginUpdateNode ==
  \E nodeId \in NodeArgs, updates \in UpdateArgs :
    /\ Begun
    /\ LET existing == Find(state.nodes, LAMBDA node : node.id = nodeId)
       IN IF existing = <<>> THEN UNCHANGED calls
          ELSE calls' = Append(calls,
                 [op |-> "updateNode", pc |-> "put", nodeId |-> nodeId, updates |-> updates,
                  nextNode |-> updates @@ existing[1],
                  nodes |-> updateNode(db, state, nextId, nodeId, updates).state.nodes])
    /\ UNCHANGED <<db, state, nextId, last, file, idb>>

\* await db.nodes.put(nextNode), and set({ nodes }) with the list mapped
\* from the state read at the call.
UpdateNodeAwaitPut ==
  \E i \in DOMAIN calls :
    /\ At(i, "updateNode", "put")
    /\ LET call == calls[i]
           result == Ret([db EXCEPT !.nodes = TablePut(@, call.nextNode)],
                         [state EXCEPT !.nodes = call.nodes], nextId, "ok")
       IN /\ db' = result.db
          /\ state' = result.state
          /\ last' = Call("updateNode", call.nodeId, Undefined, NoRelation, result,
                          <<call.updates>>)
    /\ Return(i)
    /\ UNCHANGED <<nextId, steps, file, idb>>

\* The behaviours in which edits of the view and of nodes overlap.
NextOverlapEdit ==
  \/ BeginUpdateView
  \/ UpdateViewAwaitPut
  \/ BeginUpdateNode
  \/ UpdateNodeAwaitPut

SpecOverlapEdit == InitOpened /\ [][NextOverlapEdit]_vars

\* setActiveSpace is called with the id of a stored Space (a Space is
\* entered) while other calls may be in flight: it issues its nodes read.
BeginSetActiveSpace ==
  \E spaceId \in SpaceArgs \ {GhostId} :
    /\ Begun
    /\ calls' = Append(calls, [op |-> "setActiveSpace", pc |-> "nodes", spaceId |-> spaceId])
    /\ UNCHANGED <<db, state, nextId, last, file, idb>>

\* await db.nodes.where({ spaceId }).toArray()
SetActiveAwaitNodes ==
  \E i \in DOMAIN calls :
    /\ At(i, "setActiveSpace", "nodes")
    /\ Proceed(i, [pc |-> "edges", nodes |-> WhereSpace(db.nodes, calls[i].spaceId)])
    /\ UNCHANGED <<db, state, nextId, steps, last, file, idb>>

\* await db.edges.where({ spaceId }).toArray()
SetActiveAwaitEdges ==
  \E i \in DOMAIN calls :
    /\ At(i, "setActiveSpace", "edges")
    /\ Proceed(i, [pc |-> "view", edges |-> WhereSpace(db.edges, calls[i].spaceId)])
    /\ UNCHANGED <<db, state, nextId, steps, last, file, idb>>

\* (await db.spaceViewState.get(spaceId)) ?? defaultViewState
SetActiveAwaitView ==
  \E i \in DOMAIN calls :
    /\ At(i, "setActiveSpace", "view")
    /\ Proceed(i, [pc |-> "put",
                   view |-> OrElse(ViewGet(db.spaceViewState, calls[i].spaceId),
                                   defaultViewState)])
    /\ UNCHANGED <<db, state, nextId, steps, last, file, idb>>

\* await db.appSettings.put(nextSettings), and the state set.
SetActiveAwaitPut ==
  \E i \in DOMAIN calls :
    /\ At(i, "setActiveSpace", "put")
    /\ LET call == calls[i]
           nextSettings == SettingsFor(call.spaceId)
           result == Ret([db EXCEPT !.appSettings = <<nextSettings>>],
                         [state EXCEPT !.activeSpaceId = call.spaceId, !.nodes = call.nodes,
                                       !.edges = call.edges, !.selectedNodeId = Undefined,
                                       !.view = call.view, !.appSettings = nextSettings],
                         nextId, "ok")
       IN /\ db' = result.db
          /\ state' = result.state
          /\ last' = Call("setActiveSpace", call.spaceId, Undefined, NoRelation, result, <<>>)
    /\ Return(i)
    /\ UNCHANGED <<nextId, steps, file, idb>>

\* The behaviours in which a Space is entered while edits are in flight.
NextCoherence ==
  \/ BeginSetActiveSpace
  \/ SetActiveAwaitNodes
  \/ SetActiveAwaitEdges
  \/ SetActiveAwaitView
  \/ SetActiveAwaitPut
  \/ BeginUpdateView
  \/ UpdateViewAwaitPut
  \/ BeginUpdateNode
  \/ UpdateNodeAwaitPut

SpecCoherence == InitOpened /\ [][NextCoherence]_vars

---------------------------------------------------------------------------
(* The edge-visibility view *)

\* edges.forEach over the edges that touch the focus: both ends are added.
RECURSIVE AddTouching(_, _, _)
AddTouching(set, focus, edges) ==
  IF edges = <<>> THEN set
  ELSE AddTouching(IF Head(edges).from = focus \/ Head(edges).to = focus
                   THEN set \cup {Head(edges).from, Head(edges).to} ELSE set,
                   focus, Tail(edges))

\* The second edges.forEach: an edge with an end in the set, as the set is
\* when the edge is visited, adds both its ends.
RECURSIVE AddSecondHop(_, _)
AddSecondHop(set, edges) ==
  IF edges = <<>> THEN set
  ELSE AddSecondHop(IF Head(edges).from \in set \/ Head(edges).to \in set
                    THEN set \cup {Head(edges).from, Head(edges).to} ELSE set,
                    Tail(edges))

\* SpaceWorld's visibleSet, a set of node ids.
visibleSet(view, nodes, edges, selectedNodeId) ==
  LET focus == IF selectedNodeId # Undefined THEN selectedNodeId ELSE FirstId(nodes)
      set == AddTouching({focus}, focus, edges)
  IN IF view.edgeVisibility = "all" THEN {nodes[i].id : i \in DOMAIN nodes}
     ELSE IF focus = Undefined THEN {}
     ELSE IF view.edgeVisibility = "two-hop" THEN AddSecondHop(set, edges)
     ELSE set

\* The edges the Edges component draws (before the tag filter): those with
\* an end in visibleSet and both ends among the nodes.
DrawnEdges(nodes, edges, visible) ==
  SelectSeq(edges, LAMBDA edge :
    /\ edge.from \in visible \/ edge.to \in visible
    /\ Some(nodes, LAMBDA n : n.id = edge.from) /\ Some(nodes, LAMBDA n : n.id = edge.to))

\* The store after k nodes were created in the active Space, each the
\* child of the node listed last (the one created before it).
RECURSIVE Chained(_, _)
Chained(result, k) ==
  IF k = 0 THEN result
  ELSE Chained(createNode(result.db, result.state, result.nextId,
                          result.state.nodes[Len(result.state.nodes)].id, "Idea"), k - 1)

\* The seeded store with its first or last Space opened and a chain of up
\* to two nodes created in it.
InitGraph ==
  \E i \in {1, 4}, k \in 0..2 :
    LET store == Chained(Opened(init(EmptyDb, InitialState, 0), i), k)
    IN /\ db = store.db
       /\ state = store.state
       /\ nextId = store.nextId
       /\ steps = 0
       /\ last = NoCall
       /\ file = JsonNull
       /\ idb = [verno |-> currentSchemaVersion, views |-> <<>>]
       /\ calls = <<>>

\* The toolbelt's edge-visibility buttons.
UpdateVisibility ==
  \E mode \in {"neighborhood", "two-hop", "all"} :
    LET view == [edgeVisibility |-> mode]
        result == updateView(db, state, nextId, view)
    IN Step(result, Call("updateView", Undefined, Undefined, NoRelation, result, <<view>>))
         /\ UNCHANGED file

\* The behaviours in which the graph of a Space is looked at.
NextVisible ==
  \/ SetActiveSpace
  \/ SelectNode
  \/ UpdateVisibility
  \/ Restart

SpecVisible == InitGraph /\ [][NextVisible]_vars

---------------------------------------------------------------------------
(* Claims *)

LastIs(op) == last.op = op

CountEdges(sid, fromId, toId, relation) ==
  Len(SelectSeq(db.edges, LAMBDA e : e.spaceId = sid /\ e.from = fromId /\ e.to = toId
                                       /\ e.relation = relation))

\* C1: once deleteSpace(S) has completed the tables hold no Space S, no Node
\* and no Edge with spaceId = S and no ViewState keyed S.
C1_DeleteSpaceCascades ==
  (LastIs("deleteSpace") /\ last.res = "ok") =>
    /\ ~HasKey(db.spaces, last.a)
    /\ WhereSpace(db.nodes, last.a) = <<>>
    /\ WhereSpace(db.edges, last.a) = <<>>
    /\ ViewGet(db.spaceViewState, last.a) = <<>>

\* A stored space that owned nodes and edges has just been deleted.
C1_Witness ==
  /\ LastIs("deleteSpace") /\ last.aSpace
  /\ Len(db.spaces) = last.nSpaces - 1
  /\ Len(db.nodes) < last.nNodes
  /\ Len(db.edges) < last.nEdges

\* C2: once deleteNode(N) has completed for a Node N that was stored,
\* whichever Space was active (or none), N is no longer stored and no Edge
\* has from = N or to = N.
C2_DeleteNodeCascades ==
  (LastIs("deleteNode") /\ last.aNode) =>
    /\ ~HasKey(db.nodes, last.a)
    /\ ~Some(db.edges, LAMBDA e : e.from = last.a \/ e.to = last.a)

\* C3: a linkNodes(a, b, r) call that repeats the call before it (a # b, a
\* Space active) changes no table and leaves exactly one Edge (a, b, r) in
\* the active Space; after linkNodes(b, a, r) followed by linkNodes(a, b, r)
\* both directed Edges are stored, once each.
C3_LinkNodesIdempotent ==
  (LastIs("linkNodes") /\ last.a # last.b /\ last.active # Undefined) =>
    /\ last.res # "threw"
    /\ last.again =>
         /\ ~last.dbChanged
         /\ CountEdges(last.active, last.a, last.b, last.r) = 1
    /\ last.reversed =>
         /\ CountEdges(last.active, last.a, last.b, last.r) = 1
         /\ CountEdges(last.active, last.b, last.a, last.r) = 1

\* linkNodes(a, b, r) has been called twice in a row between two stored
\* nodes with a Space active.
C3_Witness ==
  /\ LastIs("linkNodes") /\ last.again /\ last.a # last.b
  /\ last.active # Undefined /\ last.aNode /\ HasKey(db.nodes, last.b)
  /\ CountEdges(last.active, last.a, last.b, last.r) = 1

\* C4: linkNodes(a, a, r) is a silent no-op: it changes neither the tables
\* nor the read model and does not throw.
C4_NoSelfLoop ==
  (LastIs("linkNodes") /\ last.a = last.b) =>
    ~last.dbChanged /\ ~last.memChanged /\ last.res = "noop"

\* linkNodes(a, a, r) has been called on a stored node with a Space active.
C4_Witness ==
  LastIs("linkNodes") /\ last.a = last.b /\ last.aNode /\ last.active # Undefined

NodeIn(d, id, sid) == Some(d.nodes, LAMBDA n : n.id = id /\ n.spaceId = sid)

EdgesIntact(d) ==
  \A i \in DOMAIN d.edges :
    NodeIn(d, d.edges[i].from, d.edges[i].spaceId) /\ NodeIn(d, d.edges[i].to, d.edges[i].spaceId)

NodesIntact(d) == \A i \in DOMAIN d.nodes : HasKey(d.spaces, d.nodes[i].spaceId)

\* C5: every stored Edge's from and to identify stored Nodes, and the
\* Edge's spaceId is the spaceId of both of them.
C5_EdgesReferToNodes == EdgesIntact(db)

\* C6: every stored Node's spaceId is the id of a stored Space.
C6_NodesReferToSpaces == NodesIntact(db)

\* What the round trip keeps of a node and of an edge.
NodeContent(n) == <<n.title, n.tags, n.blocks>>

NodeById(d, id) == Find(d.nodes, LAMBDA n : n.id = id)

EdgeContent(d, e) ==
  <<[i \in DOMAIN NodeById(d, e.from) |-> NodeContent(NodeById(d, e.from)[i])],
    [i \in DOMAIN NodeById(d, e.to) |-> NodeContent(NodeById(d, e.to)[i])],
    e.relation>>

SameBag(s, t) ==
  /\ Len(s) = Len(t)
  /\ \A x \in Range(s) :
       Cardinality({i \in DOMAIN s : s[i] = x}) = Cardinality({i \in DOMAIN t : t[i] = x})

\* The store that importing this store's exportAll into an empty store gives.
RoundTrip == importData(EmptyDb, InitialState, nextId, exportAll(db)).db

RoundTripIsomorphic ==
  LET back == RoundTrip
  IN /\ Len(back.spaces) = Len(db.spaces)
     /\ SameBag([i \in DOMAIN back.nodes |-> NodeContent(back.nodes[i])],
                [i \in DOMAIN db.nodes |-> NodeContent(db.nodes[i])])
     /\ SameBag([i \in DOMAIN back.edges |-> EdgeContent(back, back.edges[i])],
                [i \in DOMAIN db.edges |-> EdgeContent(db, db.edges[i])])

\* C7: importing the result of exportAll into an empty store gives as many
\* Spaces, Nodes and Edges as the store holds, every Node with its title,
\* tags and blocks, every Edge between the copies of its endpoints.
C7_ExportImportRoundTrip == RoundTripIsomorphic

\* The round trip of C7 for the stores in which C5 and C6 hold.
RoundTripOfIntactStore == (EdgesIntact(db) /\ NodesIntact(db)) => RoundTripIsomorphic

Entries(payload, array) ==
  SelectSeq(Field(payload, array, <<>>), LAMBDA entry : ~IsNull(entry))

PayloadIds(payload) ==
  IF IsNull(payload) THEN {}
  ELSE UNION {{Entries(payload, array)[i].id : i \in DOMAIN Entries(payload, array)} :
                array \in {"spaces", "nodes", "edges"}}

ImportedOk == LastIs("importData") /\ last.res = "ok"

\* A payload with Spaces in it and no damaged entry.
WellFormed(payload) ==
  /\ ~IsNull(payload)
  /\ Field(payload, "spaces", <<>>) # <<>>
  /\ \A array \in {"spaces", "nodes", "edges", "spaceViewState"} :
       ~Some(Field(payload, array, <<>>), IsNull)

\* C8: a completed importData stores every incoming Space under an id that
\* is neither in the store nor in the payload, named '<old name> (imported)';
\* no imported Node or Edge id is one of the payload's or the store's; and
\* importing an undamaged backup never throws, also into the store it was
\* exported from, and importing it again right afterwards adds the same
\* numbers of Spaces, Nodes and Edges again.
C8_ImportUsesFreshIds ==
  /\ (LastIs("importData") /\ WellFormed(file)) => last.res = "ok"
  /\ ImportedOk =>
       LET newSpaces == SelectSeq(db.spaces, LAMBDA s : s.id \notin last.idsBefore)
       IN /\ Len(newSpaces) = Len(file.spaces)
          /\ \A i \in DOMAIN newSpaces :
               newSpaces[i].name = file.spaces[i].name \o " (imported)"
          /\ Len(db.spaces) = last.nSpaces + last.value[1].addedSpaces
          /\ Len(db.nodes) = last.nNodes + last.value[1].addedNodes
          /\ Len(db.edges) = last.nEdges + last.value[1].addedEdges
          /\ (AllIds(db) \ last.idsBefore) \cap PayloadIds(file) = {}
          /\ Cardinality(AllIds(db) \ last.idsBefore)
               = last.value[1].addedSpaces + last.value[1].addedNodes
                   + last.value[1].addedEdges
  /\ (LastIs("importData") /\ last.again /\ last.pvalue # <<>>) =>
       last.res = "ok" /\ last.value = last.pvalue

\* A backup has been imported twice in a row into the store it was exported
\* from, with nodes and edges in it.
C8_Witness ==
  /\ ImportedOk /\ last.again
  /\ last.value[1].addedNodes > 0 /\ last.value[1].addedEdges > 0
  /\ PayloadIds(file) \subseteq last.idsBefore

DanglingEdges(payload) ==
  {i \in DOMAIN payload.edges :
     LET e == payload.edges[i]
         inSpace(id) == Some(payload.nodes, LAMBDA n : n.id = id /\ n.spaceId = e.spaceId)
     IN ~inSpace(e.from) \/ ~inSpace(e.to)}

\* C9: a completed importData of a payload with an Edge whose from or to is
\* no incoming Node of the Edge's Space reports addedEdges below the
\* payload's edge count, and every Edge it stored joins two Nodes it stored
\* for the same new Space.
C9_DanglingEdgesDropped ==
  ImportedOk =>
    /\ DanglingEdges(file) # {} => last.value[1].addedEdges < Len(file.edges)
    /\ \A i \in DOMAIN db.edges :
         LET e == db.edges[i]
             imported(id) == Some(db.nodes, LAMBDA n : n.id = id /\ n.spaceId = e.spaceId
                                                        /\ n.id \notin last.idsBefore)
         IN e.id \notin last.idsBefore =>
              e.spaceId \notin last.idsBefore /\ imported(e.from) /\ imported(e.to)

\* A payload with a dangling Edge and with sound Edges has been imported.
C9_Witness ==
  ImportedOk /\ DanglingEdges(file) # {} /\ last.value[1].addedEdges > 0

\* C10: an importData that fails leaves all five tables (and the read
\* model) as they were before the call.
C10_ImportAllOrNothing ==
  (LastIs("importData") /\ last.res = "threw") => ~last.dbChanged /\ ~last.memChanged

\* An import has failed on the last entry of spaces, after every Space
\* before it had been written with its Nodes, Edges and ViewState.
C10_Witness ==
  /\ LastIs("importData") /\ last.res = "threw"
  /\ Len(file.spaces) > 1 /\ IsNull(file.spaces[Len(file.spaces)])
  /\ Field(file, "nodes", <<>>) # <<>> /\ Field(file, "edges", <<>>) # <<>>

\* A payload without a non-empty spaces array: not an object, spaces
\* missing, spaces empty, or spaces not an array.
LacksSpaces(payload) ==
  \/ IsNull(payload)
  \/ ~IsObject(payload)
  \/ "spaces" \notin DOMAIN payload
  \/ ~IsArray(payload.spaces)
  \/ payload.spaces = <<>>

\* C11: importData of a payload without a non-empty spaces array returns
\* the 'no data imported' result (undefined) without throwing and changes
\* neither a table nor the in-memory state.
C11_ImportTolerant ==
  (LastIs("importData") /\ LacksSpaces(file)) =>
    last.res = "noop" /\ ~last.dbChanged /\ ~last.memChanged

\* C11 for the payloads whose spaces, if there, is an array.
ImportTolerantOfArrays ==
  (LastIs("importData") /\ LacksSpaces(file)
     /\ (IsNull(file) \/ ~IsObject(file) \/ IsArray(Field(file, "spaces", <<>>)))) =>
    last.res = "noop" /\ ~last.dbChanged /\ ~last.memChanged

\* C12: the upgrade to version 2 leaves in spaceViewState every record of
\* views as it was, in appSettings the one record keyed 'app' with
\* schemaVersion 2 and no lastOpenedSpaceId, and spaces, nodes and edges as
\* they were.
C12_Migration ==
  [][(idb.verno = 1 /\ idb'.verno = currentSchemaVersion) =>
       /\ db'.spaceViewState = idb.views
       /\ db'.appSettings = <<[key |-> "app", schemaVersion |-> 2,
                               lastOpenedSpaceId |-> Undefined]>>
       /\ db'.spaces = db.spaces /\ db'.nodes = db.nodes /\ db'.edges = db.edges
       /\ idb'.views = idb.views]_vars

\* A version 1 store with several views records has been upgraded.
C12_Witness ==
  /\ LastIs("open") /\ Len(idb.views) > 1
  /\ Len(db.spaceViewState) = Len(idb.views) /\ Len(db.spaces) > 0

Seeded == LastIs("init") /\ last.nSpaces = 0

\* C13: init on a store with no Space leaves four Spaces, named Blank
\* Space, Research Brain, Life OS and Startup Map; each has at least 4 Nodes
\* and at least 3 Edges, every Edge of it goes from its '<name> Core' Node
\* to another of its Nodes, and it has a ViewState.
C13_InitSeeds ==
  Seeded =>
    /\ last.res = "ok"
    /\ [i \in DOMAIN db.spaces |-> db.spaces[i].name]
         = <<"Blank Space", "Research Brain", "Life OS", "Startup Map">>
    /\ \A i \in DOMAIN db.spaces :
         LET space == db.spaces[i]
             nodes == WhereSpace(db.nodes, space.id)
             edges == WhereSpace(db.edges, space.id)
             core == SelectSeq(nodes, LAMBDA n : n.title = space.name \o " Core")
         IN /\ Len(nodes) >= 4 /\ Len(edges) >= 3 /\ Len(core) = 1
            /\ \A j \in DOMAIN edges :
                 /\ edges[j].from = core[1].id
                 /\ edges[j].to # core[1].id
                 /\ Some(nodes, LAMBDA n : n.id = edges[j].to)
            /\ ViewGet(db.spaceViewState, space.id) # <<>>

\* init has seeded a store that had no Space.
C13_Witness ==
  Seeded /\ Len(db.spaces) = 4 /\ Len(db.edges) >= 12 /\ state.initialized

ReopenedSpaceId == init(db, InitialState, nextId).state.activeSpaceId

\* C15: whenever a stored Space is active, the stored settings name it as
\* last opened, and a restart followed by init makes it active again.
C15_SessionRestore ==
  (state.activeSpaceId # Undefined /\ HasKey(db.spaces, state.activeSpaceId)) =>
    /\ SettingsGet(db) # <<>>
    /\ SettingsGet(db)[1].lastOpenedSpaceId = state.activeSpaceId
    /\ ReopenedSpaceId = state.activeSpaceId

\* The last part of C15 alone.
RestartReopens ==
  (state.activeSpaceId # Undefined /\ HasKey(db.spaces, state.activeSpaceId)) =>
    ReopenedSpaceId = state.activeSpaceId

\* C16: createNode with a Space S active and its parentId omitted or the
\* id of a Node of S stores one more Node, of S, with the trimmed title and
\* one markdown block holding the placeholder text; with a parentId it
\* stores one more Edge, (parentId, new Node, 'child') of S, and without
\* one no Edge.
C16_CreateNode ==
  (LastIs("createNode") /\ last.active # Undefined
     /\ (last.a = Undefined \/ NodeIn(db, last.a, last.active))) =>
    LET new == NodeById(db, state.selectedNodeId)
    IN /\ last.res = "ok"
       /\ Len(db.nodes) = last.nNodes + 1
       /\ new # <<>>
       /\ new[1].spaceId = last.active
       /\ new[1].title = TitleOrDefault(last.r)
       /\ Len(new[1].blocks) = 1
       /\ new[1].blocks[1].type = "markdown"
       /\ new[1].blocks[1].text = "Describe this thought."
       /\ new[1].id \notin {last.a, last.active}
       /\ IF last.a = Undefined THEN Len(db.edges) = last.nEdges
          ELSE /\ Len(db.edges) = last.nEdges + 1
               /\ CountEdges(last.active, last.a, new[1].id, "child") = 1

\* createNode has been called with the id of a Node of the active Space.
C16_Witness ==
  /\ LastIs("createNode") /\ last.a # Undefined /\ NodeIn(db, last.a, last.active)
  /\ HasKey(db.spaces, last.active) /\ Len(db.edges) = last.nEdges + 1

\* C17: createNode and updateView called with no Space active fail (the
\* returned promise rejects) and change neither a table nor the in-memory
\* state.
C17_NoActiveSpaceFails ==
  ((LastIs("createNode") \/ LastIs("updateView")) /\ last.active = Undefined) =>
    last.res = "threw" /\ ~last.dbChanged /\ ~last.memChanged

\* What of C17 the code does: the call returns without an error and changes
\* nothing.
NoActiveSpaceIgnored ==
  ((LastIs("createNode") \/ LastIs("updateView")) /\ last.active = Undefined) =>
    last.res = "noop" /\ ~last.dbChanged /\ ~last.memChanged

Merged(node, updates) == \A k \in DOMAIN updates : node[k] = updates[k]

\* C18: updateNode with an id of no stored Node raises no error and changes
\* no table; with the id of a stored Node it completes and the stored Node
\* has every field of updates.
C18_UpdateNode ==
  LastIs("updateNode") =>
    IF ~last.aNode THEN last.res = "noop" /\ ~last.dbChanged /\ Len(db.nodes) = last.nNodes
    ELSE /\ last.res = "ok"
         /\ Len(db.nodes) = last.nNodes
         /\ Merged(NodeById(db, last.a)[1], last.value[1])

\* C18 for the Nodes the read model lists (those of the active Space) and
\* for the ids of no stored Node.
UpdateNodeOfActiveSpace ==
  (LastIs("updateNode") /\ (~last.aNode \/ NodeIn(db, last.a, last.active))) => C18_UpdateNode

\* C19: once deleteSpace has completed, the active Space is the first
\* stored Space, or none when no Space is stored; no node is selected; the
\* read model's spaces, nodes, edges and view are those of the active Space
\* (none and the default view when no Space is active); and the settings
\* name the active Space.
C19_DeleteSpaceReactivates ==
  LastIs("deleteSpace") =>
    LET active == state.activeSpaceId
    IN /\ last.res = "ok"
       /\ active # last.a \/ active = Undefined
       /\ IF db.spaces = <<>>
          THEN /\ active = Undefined
               /\ state.nodes = <<>> /\ state.edges = <<>>
               /\ state.view = defaultViewState
          ELSE /\ active = db.spaces[1].id
               /\ state.nodes = WhereSpace(db.nodes, active)
               /\ state.edges = WhereSpace(db.edges, active)
               /\ state.view = OrElse(ViewGet(db.spaceViewState, active), defaultViewState)
       /\ state.spaces = db.spaces
       /\ state.selectedNodeId = Undefined
       /\ SettingsGet(db) # <<>>
       /\ SettingsGet(db)[1].lastOpenedSpaceId = active

\* The active Space has been deleted while other Spaces were stored, and
\* it was not the first of them.
C19_Witness ==
  /\ LastIs("deleteSpace") /\ last.aSpace /\ last.a = last.active
  /\ db.spaces # <<>> /\ last.a > db.spaces[1].id
  /\ state.nodes # <<>>

\* The template addSpaceFromTemplate instantiates for a name: the named
\* one or, for a name of no template, 'Blank Space'.
TemplateFor(name) ==
  OrElse(instantiateTemplate(name, 0), instantiateTemplate("Blank Space", 0)[1])

\* C20: a completed addSpaceFromTemplate(name, overrides) leaves one more
\* Space, which is the active Space and carries the overrides' name and
\* icon (the template's where the overrides give none); the Nodes and
\* Edges it added are as many as the template's, all carry the new Space's
\* id, and each such Edge joins two of these Nodes; and one ViewState is
\* keyed by that id. A call that failed changed no table.
C20_AddSpaceFromTemplate ==
  LastIs("addSpaceFromTemplate") =>
    LET overrides == last.value[1]
        template == TemplateFor(last.r)
        active == state.activeSpaceId
        space == Find(db.spaces, LAMBDA s : s.id = active)
        nodes == WhereSpace(db.nodes, active)
        edges == WhereSpace(db.edges, active)
    IN IF last.res = "ok"
       THEN /\ Len(db.spaces) = last.nSpaces + 1
            /\ active # Undefined /\ space # <<>>
            /\ space[1].name = Field(overrides, "name", template.space.name)
            /\ space[1].icon = Field(overrides, "icon", template.space.icon)
            /\ Len(nodes) = Len(template.nodes)
            /\ Len(db.nodes) = last.nNodes + Len(template.nodes)
            /\ Len(edges) = Len(template.edges)
            /\ Len(db.edges) = last.nEdges + Len(template.edges)
            /\ \A i \in DOMAIN edges :
                 NodeIn(db, edges[i].from, active) /\ NodeIn(db, edges[i].to, active)
            /\ Len(SelectSeq(db.spaceViewState, LAMBDA v : v.spaceId = active)) = 1
            /\ state.nodes = nodes /\ state.edges = edges
       ELSE last.res = "threw" /\ ~last.dbChanged /\ ~last.memChanged

\* A Space has been added from a template of several Nodes with a name
\* and an icon given, while other Spaces were stored.
C20_Witness ==
  /\ LastIs("addSpaceFromTemplate") /\ last.res = "ok"
  /\ "icon" \in DOMAIN last.value[1]
  /\ last.nSpaces > 0
  /\ Len(WhereSpace(db.edges, state.activeSpaceId)) > 1

\* A call of addSpaceFromTemplate failed on the id of a stored Space.
AddSpaceRejected ==
  ~(LastIs("addSpaceFromTemplate") /\ last.res = "threw" /\ last.aSpace)

\* The name is neither the key nor, case-insensitively, the name of a
\* built-in template.
NoTemplate(name) ==
  \A i \in DOMAIN TEMPLATE_OPTIONS :
    /\ toLowerCase(TEMPLATE_OPTIONS[i].name) # toLowerCase(name)
    /\ TEMPLATE_OPTIONS[i].key # toLowerCase(name)

\* C21: addSpaceFromTemplate with a name of no built-in template completes
\* and leaves one more Space, which is the active Space and is the blank
\* template: named 'Blank Space' (unless the overrides name it), with the
\* blank template's four Nodes, the first of them titled 'Blank Space Core'
\* and carrying the embed block, and its three Edges.
C21_TemplateFallback ==
  (LastIs("addSpaceFromTemplate") /\ NoTemplate(last.r) /\ "id" \notin DOMAIN last.value[1]) =>
    LET active == state.activeSpaceId
        space == Find(db.spaces, LAMBDA s : s.id = active)
        nodes == WhereSpace(db.nodes, active)
    IN /\ last.res = "ok"
       /\ Len(db.spaces) = last.nSpaces + 1
       /\ active # Undefined /\ space # <<>>
       /\ space[1].name = Field(last.value[1], "name", "Blank Space")
       /\ Len(nodes) = 4 /\ Len(db.nodes) = last.nNodes + 4
       /\ nodes[1].title = "Blank Space Core" /\ Len(nodes[1].blocks) = 2
       /\ Len(WhereSpace(db.edges, active)) = 3
       /\ state.nodes = nodes

\* A Space has been added under a name of no template while Spaces of
\* other templates were stored.
C21_Witness ==
  /\ LastIs("addSpaceFromTemplate") /\ NoTemplate(last.r) /\ last.res = "ok"
  /\ last.nSpaces > 1
  /\ Len(db.spaces) = last.nSpaces + 1

\* The view states keyed by a Space other than sid.
OtherViews(d, sid) == SelectSeq(d.spaceViewState, LAMBDA v : v.spaceId # sid)

\* C22: a step of updateView(partial) with a Space S active leaves an
\* in-memory view that has the fields of the view before and of partial,
\* each field of partial with partial's value (the camera with both its
\* position and target) and every other field as it was; the view state
\* stored under S is that view; and the view states of other Spaces and
\* the spaces, nodes and edges tables are as before.
C22_UpdateView ==
  [][(last'.op = "updateView" /\ state.activeSpaceId # Undefined) =>
       LET partial == last'.value[1]
           S == state.activeSpaceId
       IN /\ last'.res = "ok"
          /\ DOMAIN state'.view = DOMAIN state.view \cup DOMAIN partial
          /\ \A k \in DOMAIN state'.view :
               state'.view[k] = IF k \in DOMAIN partial THEN partial[k] ELSE state.view[k]
          /\ ViewGet(db'.spaceViewState, S) = <<[spaceId |-> S] @@ state'.view>>
          /\ OtherViews(db', S) = OtherViews(db, S)
          /\ db'.spaces = db.spaces /\ db'.nodes = db.nodes /\ db'.edges = db.edges
          /\ state'.activeSpaceId = S]_vars

\* The same with a view that has no mode read as one in mode 'observe',
\* as every reader of view.mode does.
UpdateViewOfModedView ==
  [][(last'.op = "updateView" /\ state.activeSpaceId # Undefined) =>
       LET partial == last'.value[1]
           S == state.activeSpaceId
           current == state.view @@ [mode |-> "observe"]
       IN /\ last'.res = "ok"
          /\ DOMAIN state'.view = DOMAIN current \cup DOMAIN partial
          /\ \A k \in DOMAIN state'.view :
               state'.view[k] = IF k \in DOMAIN partial THEN partial[k] ELSE current[k]
          /\ ViewGet(db'.spaceViewState, S) = <<[spaceId |-> S] @@ state'.view>>
          /\ OtherViews(db', S) = OtherViews(db, S)
          /\ db'.spaces = db.spaces /\ db'.nodes = db.nodes /\ db'.edges = db.edges
          /\ state'.activeSpaceId = S]_vars

\* The view a stored Space embeds, which it was created with.
EmbeddedView(d, sid) == Find(d.spaces, LAMBDA s : s.id = sid)[1].view

\* C23: a step of resetView with a stored Space S active leaves the
\* in-memory view equal to the view S embeds and the view state stored
\* under S equal to it; and no step of updateView or resetView changes a
\* stored Space, so the embedded view stays what S was created with.
C23_ResetView ==
  [][/\ (last'.op = "resetView" /\ HasKey(db.spaces, state.activeSpaceId)) =>
          LET S == state.activeSpaceId
          IN /\ last'.res = "ok"
             /\ state'.view = EmbeddedView(db, S)
             /\ ViewGet(db'.spaceViewState, S) = <<[spaceId |-> S] @@ EmbeddedView(db, S)>>
     /\ last'.op \in {"updateView", "resetView"} => db'.spaces = db.spaces]_vars

\* The same for a Space S the in-memory list of Spaces holds.
ResetViewOfListedSpace ==
  [][/\ (last'.op = "resetView" /\ HasKey(db.spaces, state.activeSpaceId)
           /\ HasKey(state.spaces, state.activeSpaceId)) =>
          LET S == state.activeSpaceId
          IN /\ last'.res = "ok"
             /\ state'.view = EmbeddedView(db, S)
             /\ ViewGet(db'.spaceViewState, S) = <<[spaceId |-> S] @@ EmbeddedView(db, S)>>
     /\ last'.op \in {"updateView", "resetView"} => db'.spaces = db.spaces]_vars

\* The query has no character but spaces.
Blank(query) == \A i \in 1..Len(query) : SubSeq(query, i, i) = " "

\* The text contains the query, letter case apart.
Contains(text, query) == includes(toLowerCase(text), toLowerCase(query))

\* The markdown blocks of a node that contain the query, in block order.
MarkdownHits(node, query) ==
  SelectSeq(node.blocks, LAMBDA b : b.type = "markdown" /\ Contains(b.text, query))

\* The stored Nodes of a Space, in table order, whose title or some
\* markdown block contains the query.
ReferenceHits(sid, query) ==
  SelectSeq(WhereSpace(db.nodes, sid),
            LAMBDA n : Contains(n.title, query) \/ MarkdownHits(n, query) # <<>>)

\* C24: search(query) returns nothing for a blank query or with no
\* Space active; otherwise it returns, in table order, the first 8 (or
\* all, when fewer) of the active Space's stored Nodes whose title or some
\* markdown block contains the query, letter case apart, each with its id
\* and title.  It changes no table.
C24_Search ==
  LastIs("search") =>
    LET results == last.value
        hits == ReferenceHits(last.active, last.r)
    IN /\ last.res = "ok" /\ ~last.dbChanged
       /\ IF Blank(last.r) \/ last.active = Undefined THEN results = <<>>
          ELSE /\ Len(results) = (IF Len(hits) < 8 THEN Len(hits) ELSE 8)
               /\ \A i \in DOMAIN results :
                    results[i].id = hits[i].id /\ results[i].title = hits[i].title

\* A search that more than 8 Nodes match, one of them by its title alone,
\* has returned 8 results.
C24_Witness ==
  /\ LastIs("search") /\ Len(last.value) = 8
  /\ Len(ReferenceHits(last.active, last.r)) > 8
  /\ \E i \in DOMAIN last.value :
       MarkdownHits(NodeById(db, last.value[i].id)[1], last.r) = <<>>

\* 'resources' with 'Research Brain' active finds the Resources Node.
ResourcesFound ==
  (/\ LastIs("search") /\ last.r = "resources"
   /\ Some(db.spaces, LAMBDA s : s.id = last.active /\ s.name = "Research Brain")) =>
    \E i \in DOMAIN last.value : last.value[i].title = "Resources"

\* The nodes the read model lists are the stored Nodes of the active
\* Space, in table order.
NodesListedAreStored ==
  state.activeSpaceId # Undefined => state.nodes = WhereSpace(db.nodes, state.activeSpaceId)

\* C25: the snippet of each search result is the first 120 characters
\* (the whole, when shorter) of the text of the Node's first markdown
\* block, in block order, that contains the query, and the Node's title
\* when no markdown block of the Node contains it.
C25_Snippet ==
  LastIs("search") =>
    \A i \in DOMAIN last.value :
      LET node == NodeById(db, last.value[i].id)[1]
          hits == MarkdownHits(node, last.r)
          snippet == last.value[i].snippet
      IN IF hits = <<>> THEN snippet = node.title
         ELSE /\ Len(snippet) = (IF Len(hits[1].text) < 120 THEN Len(hits[1].text) ELSE 120)
              /\ snippet = SubSeq(hits[1].text, 1, Len(snippet))

\* A search has returned a Node whose matching block is longer than 120
\* characters and is not the Node's first markdown block, with a snippet
\* of 120 characters.
C25_Witness ==
  /\ LastIs("search")
  /\ \E i \in DOMAIN last.value :
       LET node == NodeById(db, last.value[i].id)[1]
           hits == MarkdownHits(node, last.r)
       IN /\ hits # <<>> /\ Len(hits[1].text) > 120
          /\ Len(last.value[i].snippet) = 120
          /\ hits[1] # SelectSeq(node.blocks, isMarkdownBlock)[1]

\* The view has a mode, and it is one of the two.
HasMode(view) == "mode" \in DOMAIN view /\ view.mode \in {"observe", "edit"}

ModesValid ==
  /\ HasMode(state.view)
  /\ \A i \in DOMAIN db.spaceViewState : HasMode(db.spaceViewState[i])

\* A step of updateView with a Space active moves the in-memory and the
\* stored mode to the mode given, and leaves them as they were when none
\* is given.
ModeFollowsUpdateView ==
  (last'.op = "updateView" /\ state.activeSpaceId # Undefined) =>
    LET partial == last'.value[1]
        mode == Field(partial, "mode", Field(state.view, "mode", "undefined"))
    IN /\ Field(state'.view, "mode", "undefined") = mode
       /\ Field(ViewGet(db'.spaceViewState, state.activeSpaceId)[1], "mode", "undefined") = mode

\* C26: in every state the in-memory view and every stored view state
\* have the mode 'observe' or the mode 'edit'; updateView with a mode
\* moves to that mode and updateView without one leaves the mode as it
\* was.
C26_ModeMachine == []ModesValid /\ [][ModeFollowsUpdateView]_vars

\* The same for the view states that have a mode, an absent mode read as
\* 'observe'.
ModeMachineOfModedViews ==
  [][(last'.op = "updateView" /\ state.activeSpaceId # Undefined) =>
       LET partial == last'.value[1]
           mode == Field(partial, "mode", Field(state.view, "mode", "observe"))
       IN /\ HasMode(state'.view) /\ state'.view.mode = mode
          /\ ViewGet(db'.spaceViewState, state.activeSpaceId)[1].mode = mode]_vars

\* The payload's view-state entries for a Space, those of spaceViewState
\* before those of views.
PayloadViews(payload, sid) ==
  SelectSeq(Entries(payload, "spaceViewState") \o Entries(payload, "views"),
            LAMBDA entry : entry.spaceId = sid)

\* The entries importData reads: those of views only for a payload without
\* spaceViewState.
PayloadViewsRead(payload, sid) ==
  SelectSeq(IF "spaceViewState" \in DOMAIN payload THEN Entries(payload, "spaceViewState")
            ELSE Entries(payload, "views"),
            LAMBDA entry : entry.spaceId = sid)

\* After a completed import every imported Space has one view state, keyed
\* by its new id: a copy of one of entries(old id), or of the default view
\* state when there is none.
ImportedViews(entries(_)) ==
  ImportedOk =>
    LET newSpaces == SelectSeq(db.spaces, LAMBDA s : s.id \notin last.idsBefore)
    IN /\ Len(newSpaces) = Len(file.spaces)
       /\ \A i \in DOMAIN newSpaces :
            LET new == newSpaces[i].id
                stored == SelectSeq(db.spaceViewState, LAMBDA v : v.spaceId = new)
                given == entries(file.spaces[i].id)
            IN /\ Len(stored) = 1
               /\ IF given = <<>> THEN stored[1] = [spaceId |-> new] @@ defaultViewState
                  ELSE \E j \in DOMAIN given : stored[1] = [spaceId |-> new] @@ given[j]

\* C27: after a completed importData every imported Space has exactly one
\* view state keyed by its new id; it is a copy of the payload's entry for
\* the Space's old id, be the entry in spaceViewState or in views, and a
\* copy of the default view state when the payload has no entry for it.
C27_ImportedViewState == ImportedViews(LAMBDA sid : PayloadViews(file, sid))

\* The same with views read only when the payload has no spaceViewState.
ImportedViewStateRead == ImportedViews(LAMBDA sid : PayloadViewsRead(file, sid))

\* C28: a step of importData whose payload carries no appSettings leaves
\* the stored settings record as it was, so lastOpenedSpaceId names the
\* Space it named before.
C28_ImportKeepsSettings ==
  [][(last'.op = "importData" /\ "appSettings" \notin DOMAIN file') =>
       db'.appSettings = db.appSettings]_vars

\* The same for the imports that store nothing.
ImportOfNothingKeepsSettings ==
  [][(last'.op = "importData" /\ last'.res # "ok") => db'.appSettings = db.appSettings]_vars

\* The number of stored Spaces that carry a template's name.
Copies(template) == Len(SelectSeq(db.spaces, LAMBDA s : s.name = template.name))

TemplateSet == {TEMPLATE_OPTIONS[j] : j \in DOMAIN TEMPLATE_OPTIONS}

\* C29: starting from an empty store, however calls of init interleave
\* (two overlapping calls included), the tables never hold two copies of a
\* built-in template Space nor some templates without the others, and once
\* a call of init has completed they hold exactly one copy of each.
C29_SeedsOnce ==
  /\ \A template \in TemplateSet : Copies(template) <= 1
  /\ \A s, t \in TemplateSet : Copies(s) = Copies(t)
  /\ state.initialized => \A template \in TemplateSet : Copies(template) = 1

\* A single call of init, or calls of init one after another, do seed once.
SeededAlone ==
  (state.initialized /\ steps = 1) => \A template \in TemplateSet : Copies(template) = 1

\* Seeding is all-or-nothing also when calls overlap.
NeverPartlySeeded == \A s, t \in TemplateSet : Copies(s) = Copies(t)

NoLinkInFlight == \A i \in DOMAIN calls : calls[i].op # "linkNodes"

\* C30: when no call of linkNodes is in flight, calls issued without
\* awaiting the one before them included, the tables hold at most one Edge
\* of a Space with a given (from, to, relation).
C30_NoDuplicateEdges ==
  NoLinkInFlight =>
    \A i, j \in DOMAIN db.edges :
      (db.edges[i].spaceId = db.edges[j].spaceId /\ db.edges[i].from = db.edges[j].from
         /\ db.edges[i].to = db.edges[j].to /\ db.edges[i].relation = db.edges[j].relation)
        => i = j

\* The deletion of a Space other than the active one.
DeletesOtherSpace == last'.op = "deleteSpace" /\ last'.a # state.activeSpaceId

LastOpened(d) == IF SettingsGet(d) = <<>> THEN Undefined ELSE SettingsGet(d)[1].lastOpenedSpaceId

\* C31: deleteSpace(id) with id other than the active Space leaves
\* activeSpaceId, the in-memory nodes, edges and view and the stored
\* lastOpenedSpaceId as they were.
C31_DeleteOtherSpace ==
  [][DeletesOtherSpace =>
       /\ state'.activeSpaceId = state.activeSpaceId
       /\ state'.nodes = state.nodes
       /\ state'.edges = state.edges
       /\ state'.view = state.view
       /\ LastOpened(db') = LastOpened(db)]_vars

\* It does so when the active Space is the first stored one and the
\* settings record names it.
DeleteOtherThanFirstActive ==
  [][(DeletesOtherSpace /\ state.initialized /\ state.activeSpaceId = FirstId(db.spaces)
        /\ LastOpened(db) = state.activeSpaceId)
       => /\ state'.activeSpaceId = state.activeSpaceId
          /\ state'.nodes = state.nodes
          /\ state'.edges = state.edges
          /\ state'.view = state.view
          /\ LastOpened(db') = LastOpened(db)]_vars

\* C32: deleteNode(N) leaves the selection as it was when the selected Node
\* is another stored Node or when no Node is selected; when the selected
\* Node is N the selection becomes a remaining listed Node, or undefined
\* when none remains.
C32_DeleteNodeSelection ==
  [][(last'.op = "deleteNode" /\ last'.res = "ok") =>
       IF state.selectedNodeId = last'.a
       THEN IF state'.nodes = <<>> THEN state'.selectedNodeId = Undefined
            ELSE Some(state'.nodes, LAMBDA node : node.id = state'.selectedNodeId)
       ELSE (state.selectedNodeId = Undefined \/ HasKey(db.nodes, state.selectedNodeId))
              => state'.selectedNodeId = state.selectedNodeId]_vars

\* Whatever was selected, deleteNode leaves selected the first listed Node,
\* or none when no Node remains.
DeleteNodeSelectsFirst ==
  [][(last'.op = "deleteNode" /\ last'.res = "ok") =>
       state'.selectedNodeId = FirstId(state'.nodes)]_vars

\* The owning Space of every stored Node, by the Node's id.
Ownership(d) == {<<d.nodes[i].id, d.nodes[i].spaceId>> : i \in DOMAIN d.nodes}

NodeUpdated == last'.op = "updateNode" /\ last'.res = "ok"

\* C33: whatever the updates carry (an id or a spaceId included), updateNode
\* changes no stored Node's id or spaceId and adds no Node record.
C33_NodeIdentity ==
  [][NodeUpdated => (Ownership(db') = Ownership(db) /\ Len(db'.nodes) = Len(db.nodes))]_vars

\* The updates of a call keep the Node's own id and spaceId, as the editor's do.
KeepsIdentity(updates, nodeId) ==
  /\ Field(updates, "id", nodeId) = nodeId
  /\ Field(updates, "spaceId", state.activeSpaceId) = state.activeSpaceId

\* With such updates the Node's identity and ownership stay.
IdentityKeptByEditor ==
  [][(NodeUpdated /\ KeepsIdentity(last'.value[1], last'.a))
       => (Ownership(db') = Ownership(db) /\ Len(db'.nodes) = Len(db.nodes))]_vars

ImportSucceeded == last'.op = "importData" /\ last'.res = "ok"

\* Every record of table t is, unchanged, a record of table t2.
Kept(t, t2) == \A i \in DOMAIN t : \E j \in DOMAIN t2 : t2[j] = t[i]

\* C34: a successful importData leaves every stored Space, Node, Edge and
\* ViewState record as it was, and the active Space with the in-memory
\* nodes, edges, view and selection; the in-memory list of Spaces keeps
\* its entries.
C34_ImportOnlyAdds ==
  [][ImportSucceeded =>
       /\ Kept(db.spaces, db'.spaces) /\ Kept(db.nodes, db'.nodes)
       /\ Kept(db.edges, db'.edges) /\ Kept(db.spaceViewState, db'.spaceViewState)
       /\ state'.activeSpaceId = state.activeSpaceId
       /\ state'.nodes = state.nodes /\ state'.edges = state.edges
       /\ state'.view = state.view /\ state'.selectedNodeId = state.selectedNodeId
       /\ Kept(state.spaces, state'.spaces)]_vars

\* An import that added Spaces to a store that had some, with a Node selected.
C34_Witness ==
  /\ LastIs("importData") /\ last.res = "ok"
  /\ last.nSpaces > 0 /\ Len(db.spaces) > last.nSpaces
  /\ last.nNodes > 0 /\ Len(db.nodes) > last.nNodes
  /\ state.selectedNodeId # Undefined

\* The tables the upgrade step would leave if it were applied again now.
Rerun == Upgrade(db, idb.views)

Upgraded == idb.verno = currentSchemaVersion /\ last.op # "none"

\* C35: in every state of a store on which the v1-to-v2 step has been
\* applied, applying the step again leaves spaceViewState and appSettings
\* exactly as they are.
C35_UpgradeRerun ==
  Upgraded => (Rerun.spaceViewState = db.spaceViewState /\ Rerun.appSettings = db.appSettings)

\* It is so right after the step, before any call of the store.
RerunRightAfterOpen ==
  LastIs("open") => (Rerun.spaceViewState = db.spaceViewState /\ Rerun.appSettings = db.appSettings)

\* The re-run never touches the spaces, nodes and edges.
RerunKeepsGraph ==
  Upgraded => (Rerun.spaces = db.spaces /\ Rerun.nodes = db.nodes /\ Rerun.edges = db.edges)

\* The ViewState stored for the active Space.
PersistedView == ViewGet(db.spaceViewState, state.activeSpaceId)

\* The two calls completed last were calls of updateView, the later one
\* the camera-only update of the persistence timer.
CameraFlushedLast ==
  /\ calls = <<>>
  /\ LastIs("updateView") /\ last.res = "ok" /\ last.again
  /\ DOMAIN last.value[1] = {"camera"}

\* C36: once an updateView that changes the mode, the environment or the
\* edge visibility and a camera-only updateView have both completed,
\* overlapping or not, the in-memory view and the stored ViewState of the
\* active Space carry the changed field.
C36_ViewChangeKept ==
  CameraFlushedLast =>
    \A k \in DOMAIN last.pvalue[1] \ {"camera"} :
      /\ state.view[k] = last.pvalue[1][k]
      /\ PersistedView # <<>> /\ PersistedView[1][k] = last.pvalue[1][k]

\* The camera of the flush is never lost to the view change.
CameraKept ==
  CameraFlushedLast =>
    (state.view.camera = last.value[1].camera /\ PersistedView[1].camera = last.value[1].camera)

\* The in-memory view is the stored one whenever no call is in flight.
ViewIsPersisted ==
  (calls = <<>> /\ LastIs("updateView")) => PersistedView = <<[spaceId |-> state.activeSpaceId] @@ state.view>>

\* The stored Node and the listed Node with the id of the call made last.
StoredNode == NodeById(db, last.a)

ListedNode == Find(state.nodes, LAMBDA node : node.id = last.a)

\* The two calls completed last were calls of updateNode on the same Node
\* that set different fields.
TwoNodeUpdates ==
  /\ calls = <<>>
  /\ LastIs("updateNode") /\ last.res = "ok" /\ last.again
  /\ DOMAIN last.value[1] \cap DOMAIN last.pvalue[1] = {}

Carries(node, updates) == \A k \in DOMAIN updates : node[k] = updates[k]

\* C37: once two calls of updateNode on the same Node that set different
\* fields have both completed, overlapping or not, the stored Node and the
\* in-memory Node carry the changes of both.
C37_NodeUpdatesKept ==
  TwoNodeUpdates =>
    /\ StoredNode # <<>> /\ ListedNode # <<>>
    /\ Carries(StoredNode[1], last.value[1]) /\ Carries(StoredNode[1], last.pvalue[1])
    /\ Carries(ListedNode[1], last.value[1]) /\ Carries(ListedNode[1], last.pvalue[1])

\* The changes of the call that completed last are never lost.
LaterNodeUpdateKept ==
  TwoNodeUpdates =>
    (Carries(StoredNode[1], last.value[1]) /\ Carries(ListedNode[1], last.value[1]))

\* The read model shows the active Space as it is stored.
Coherent ==
  /\ state.nodes = WhereSpace(db.nodes, state.activeSpaceId)
  /\ state.edges = WhereSpace(db.edges, state.activeSpaceId)
  /\ PersistedView = <<[spaceId |-> state.activeSpaceId] @@ state.view>>
  /\ state.selectedNodeId # Undefined
       => Some(state.nodes, LAMBDA node : node.id = state.selectedNodeId)

\* C38: whenever no call is in flight, however the calls interleaved, the
\* in-memory nodes and edges are the stored Nodes and Edges of the active
\* Space, the in-memory view is the stored ViewState of the active Space,
\* and the selected Node, if any, is one of the in-memory nodes.
C38_ReadModelCoherent == calls = <<>> => Coherent

\* Calls made one after the other leave the nodes and edges of the read
\* model those of the active Space as stored.
ListsCoherentInSequence ==
  /\ state.nodes = WhereSpace(db.nodes, state.activeSpaceId)
  /\ state.edges = WhereSpace(db.edges, state.activeSpaceId)

\* The set shown for the read model as it is.
Visible == visibleSet(state.view, state.nodes, state.edges, state.selectedNodeId)

Focus == IF state.selectedNodeId # Undefined THEN state.selectedNodeId ELSE FirstId(state.nodes)

\* The ids joined to one of `ids` by an Edge of the list, in either direction.
Joined(ids) ==
  {id \in UNION {{state.edges[i].from, state.edges[i].to} : i \in DOMAIN state.edges} :
     \E i \in DOMAIN state.edges :
       \/ state.edges[i].from \in ids /\ state.edges[i].to = id
       \/ state.edges[i].to \in ids /\ state.edges[i].from = id}

WithinOne == {Focus} \cup Joined({Focus})

WithinTwo == WithinOne \cup Joined(WithinOne)

\* C39: with focus f (the selected Node, else the first Node) the visible
\* set is f and the Nodes joined to f by an Edge in 'neighborhood' mode,
\* the Nodes within undirected distance 2 of f in 'two-hop' mode, and all
\* Nodes of the Space in 'all' mode; every Edge drawn has an end in it.
C39_VisibleSet ==
  /\ Focus # Undefined =>
       CASE state.view.edgeVisibility = "neighborhood" -> Visible = WithinOne
         [] state.view.edgeVisibility = "two-hop" -> Visible = WithinTwo
         [] OTHER -> Visible = {state.nodes[i].id : i \in DOMAIN state.nodes}
  /\ LET drawn == DrawnEdges(state.nodes, state.edges, Visible)
     IN \A i \in DOMAIN drawn : drawn[i].from \in Visible \/ drawn[i].to \in Visible

\* The 'neighborhood' and 'all' sets are as stated, and the 'two-hop' set
\* holds at least the Nodes within distance 2.
VisibleOtherwise ==
  Focus # Undefined =>
    CASE state.view.edgeVisibility = "neighborhood" -> Visible = WithinOne
      [] state.view.edgeVisibility = "two-hop" -> WithinTwo \subseteq Visible
      [] OTHER -> Visible = {state.nodes[i].id : i \in DOMAIN state.nodes}

====
